---- MODULE Spec2Model ----
(***************************************************************************)
(* State-machine model of the finance dashboard: the browser-storage layer *)
(* (final_project_fz/scripts/storage.js: the time-bounded cache and the    *)
(* domain collections persisted in localStorage as JSON text), the savings *)
(* goals page (goals.js), the price chart (chart.js and the main script)   *)
(* and the market-data adapters of the main script.                        *)
(*                                                                         *)
(* JavaScript values are modelled as one-field records whose field name is *)
(* the value's type, so that values of different types can be compared.    *)
(***************************************************************************)
EXTENDS Integers, Sequences, FiniteSets, TLC

VARIABLES
    now,            \* Date.now(), in milliseconds
    localStorage,   \* window.localStorage: storage key -> stored text, Null when absent
    quotaExceeded,  \* TRUE when localStorage.setItem throws QuotaExceededError
    prev,           \* localStorage as it was before the last operation (history)
    call,           \* the last operation and its arguments (history)
    ret,            \* what the last operation returned or threw (history)
    lastSet,        \* per cache coordinate, the entry of the last successful set that
                    \* no delete, clearCategory or clear call followed (history)
    coll,           \* the collection whose operations this run exercises
    added,          \* the records the add calls on coll returned since the last
                    \* other write to coll (history)
    goals,          \* goals.js: the module's array of goals
    goalsContainer, \* goals.js: the goal cards displayGoals rendered, in order
    prevGoals,      \* goals as it was before the last operation (history)
    goalForm,       \* goals.js: the submit button and the cancel button of the goal form
    chart,          \* the chart the last rendering drew, Null before any
    tooltip,        \* the tooltip element of the chart
    series,         \* the time series the page holds, as an array the renderers are given
    incomeItems,    \* main script: the module's array of income items
    spendingItems,  \* main script: the module's array of spending items
    savingsGoals,   \* main script: the module's array of savings goals
    incomeRows,     \* main script: the rows of the income table
    spendingRows,   \* main script: the rows of the spending table
    refreshes,      \* portfolio page: the displayPortfolioHoldings calls awaiting quotes
    tbody,          \* portfolio page: the body of the holdings table
    summary,        \* portfolio page: the portfolio summary
    searchInput,    \* portfolio page: the text of the stock search input
    searchTimeout,  \* portfolio page: the id of the timer the search debounce set last
    timers,         \* portfolio page: the timers that are set and have not fired
    searchResults,  \* portfolio page: the search results element
    searches,       \* portfolio page: the performStockSearch calls awaiting a response
    issued,         \* the queries searched for so far, in order (history)
    fetches,        \* the number of HTTP requests the adapter call in progress issued
    started         \* the clock when the adapter call in progress began (history)

goalsVars == <<goals, goalsContainer, prevGoals>>
chartVars == <<chart, tooltip, series>>
adapterVars == <<fetches, started>>
formVars == <<goalForm>>
portfolioVars == <<refreshes, tbody, summary>>
searchVars == <<searchInput, searchTimeout, timers, searchResults, searches, issued>>
mainVars == <<incomeItems, spendingItems, savingsGoals, incomeRows, spendingRows>>

\* The state of the page scripts, which the storage layer never touches.
pageVars == <<goalsVars, formVars, chartVars, adapterVars, mainVars, portfolioVars,
              searchVars>>

vars == <<now, localStorage, quotaExceeded, prev, call, ret, lastSet, coll, added,
          pageVars>>

----------------------------------------------------------------------------
(* Bounds *)

MaxTime == 2        \* the clock runs over 0..MaxTime
MaxTtl == 1         \* ttl arguments are null or 0..MaxTtl
MaxAge == 3         \* maxAge arguments are 0..MaxAge
MaxRecords == 2     \* records in the exercised collection

----------------------------------------------------------------------------
(* JavaScript values *)

Undefined == [undef |-> TRUE]
Null == [null |-> TRUE]
NaN == [nan |-> TRUE]
Num(n) == [num |-> n]
Str(s) == [str |-> s]
Bool(b) == [bool |-> b]
Obj(f) == [obj |-> f]
Arr(s) == [arr |-> s]
Throw(e) == [throw |-> e]

Is(v, t) == DOMAIN v = {t}

EmptyObj == Obj([k \in {} |-> Null])

\* ToBoolean: the falsy values are undefined, null, NaN, 0, "" and false.
Truthy(v) ==
    CASE Is(v, "undef") -> FALSE
      [] Is(v, "null") -> FALSE
      [] Is(v, "nan") -> FALSE
      [] Is(v, "num") -> v.num # 0
      [] Is(v, "str") -> v.str # ""
      [] Is(v, "bool") -> v.bool
      [] OTHER -> TRUE

\* o[k]: undefined when o has no own property k.
GetProp(o, k) ==
    IF Is(o, "obj") /\ k \in DOMAIN o.obj THEN o.obj[k] ELSE Undefined

\* o[k] = v
SetProp(o, k, v) ==
    Obj([x \in DOMAIN o.obj \cup {k} |-> IF x = k THEN v ELSE o.obj[x]])

\* delete o[k]
DeleteProp(o, k) ==
    Obj([x \in DOMAIN o.obj \ {k} |-> o.obj[x]])

\* Object.keys(o)
Keys(o) == DOMAIN o.obj

----------------------------------------------------------------------------
(* JSON *)

RECURSIVE ToJSON(_)
\* The value JSON.stringify writes for v: NaN becomes null, a property whose
\* value is undefined is dropped, an undefined array element becomes null.
ToJSON(v) ==
    CASE Is(v, "nan") -> Null
      [] Is(v, "obj") ->
            Obj([k \in {x \in DOMAIN v.obj : ~Is(v.obj[x], "undef")} |-> ToJSON(v.obj[k])])
      [] Is(v, "arr") ->
            Arr([i \in 1..Len(v.arr) |->
                    IF Is(v.arr[i], "undef") THEN Null ELSE ToJSON(v.arr[i])])
      [] OTHER -> v

\* JSON.stringify(v): a text, or undefined for undefined.
JSONstringify(v) == IF Is(v, "undef") THEN Undefined ELSE [json |-> ToJSON(v)]

\* JSON.parse(text) throws SyntaxError unless text is JSON; null is coerced to "null".
JSONparseThrows(text) == ~(Is(text, "json") \/ Is(text, "null"))
JSONparse(text) == IF Is(text, "json") THEN text.json ELSE Null

safeParse(data, defaultValue) ==
    IF Truthy(data)
    THEN IF JSONparseThrows(data) THEN defaultValue ELSE JSONparse(data)
    ELSE defaultValue

safeStringify(data) == JSONstringify(data)

----------------------------------------------------------------------------
(* Storage keys *)

STORAGE_KEYS ==
    [PORTFOLIO |-> "finance_portfolio_holdings",
     TRANSACTIONS |-> "finance_transactions",
     EXPENSES |-> "finance_expenses",
     GOALS |-> "finance_savings_goals",
     SETTINGS |-> "finance_user_settings",
     CACHE |-> "finance_api_cache"]

CACHE == STORAGE_KEYS.CACHE

\* The keys the main script and the goals script read when they are loaded, and
\* the key the goals script writes the total of the savings under.
ModuleKeys == {"incomeItems", "spendingItems", "savingsGoals", "totalSavings"}

\* The keys under which the adapters cache their results: `stock_quote_${symbol}`,
\* `exchange_rates_${baseCurrency}` and CACHE_KEY of news.js.
AdapterKeys ==
    {"stock_quote_AAPL", "stock_quote_MSFT", "stock_timeseries_AAPL", "exchange_rates_USD",
     "cachedNews", "stock_search_aa", "stock_search_ms"}

StorageKeys == {STORAGE_KEYS[n] : n \in DOMAIN STORAGE_KEYS} \cup ModuleKeys \cup AdapterKeys

EmptyStorage == [k \in StorageKeys |-> Null]

\* What an operation yields: the storage after it, and its return value or
\* the exception it throws.
Result(ls, r) == [ls |-> ls, ret |-> r]

\* localStorage.setItem(key, text)
setItem(ls, key, text) ==
    IF quotaExceeded
    THEN Result(ls, Throw("QuotaExceededError"))
    ELSE Result([ls EXCEPT ![key] = text], Undefined)

\* localStorage.removeItem(key)
removeItem(ls, key) == [ls EXCEPT ![key] = Null]

----------------------------------------------------------------------------
(* cacheStorage *)

DefaultCache ==
    Obj([c \in {"stockPrices", "exchangeRates", "news"} |-> EmptyObj])

cacheLoad(ls) == safeParse(ls[CACHE], DefaultCache)

cacheSave(ls, cache) ==
    LET data == safeStringify(cache)
    IN  IF Truthy(data)
        THEN LET w == setItem(ls, CACHE, data)
             IN  IF Is(w.ret, "throw") THEN w ELSE Result(w.ls, Bool(TRUE))
        ELSE Result(ls, Bool(FALSE))

\* entry.ttl && Date.now() - entry.timestamp > entry.ttl
EntryExpired(entry) ==
    /\ Truthy(GetProp(entry, "ttl"))
    /\ now - GetProp(entry, "timestamp").num > GetProp(entry, "ttl").num

NewEntry(value, ttl) ==
    Obj([data |-> value, timestamp |-> Num(now), ttl |-> ttl])

\* cacheSet with the entry put into a fresh cache object instead of the loaded one.
cacheSet_freshCache(ls, category, key, value, ttl) ==
    LET cache1 == IF ~Truthy(GetProp(DefaultCache, category))
                  THEN SetProp(DefaultCache, category, EmptyObj)
                  ELSE DefaultCache
    IN  cacheSave(ls, SetProp(cache1, category,
                              SetProp(GetProp(cache1, category), key, NewEntry(value, ttl))))

cacheSet(ls, category, key, value, ttl) ==
    LET cache == cacheLoad(ls)
        cache1 == IF ~Truthy(GetProp(cache, category))
                  THEN SetProp(cache, category, EmptyObj)
                  ELSE cache
        cache2 == SetProp(cache1, category,
                          SetProp(GetProp(cache1, category), key, NewEntry(value, ttl)))
    IN  cacheSave(ls, cache2)

cacheDelete(ls, category, key) ==
    LET cache == cacheLoad(ls)
    IN  IF Truthy(GetProp(cache, category)) /\ Truthy(GetProp(GetProp(cache, category), key))
        THEN cacheSave(ls, SetProp(cache, category,
                                   DeleteProp(GetProp(cache, category), key)))
        ELSE Result(ls, Bool(FALSE))

cacheGet(ls, category, key) ==
    LET cache == cacheLoad(ls)
    IN  IF Truthy(GetProp(cache, category)) /\ Truthy(GetProp(GetProp(cache, category), key))
        THEN LET entry == GetProp(GetProp(cache, category), key)
             IN  IF EntryExpired(entry)
                 THEN LET d == cacheDelete(ls, category, key)
                      IN  IF Is(d.ret, "throw") THEN d ELSE Result(d.ls, Null)
                 ELSE Result(ls, GetProp(entry, "data"))
        ELSE Result(ls, Null)

\* cacheIsValid with the entry's own ttl deciding instead of maxAge.
cacheIsValid_ownTtl(ls, category, key, maxAge) ==
    LET cache == cacheLoad(ls)
    IN  IF Truthy(GetProp(cache, category)) /\ Truthy(GetProp(GetProp(cache, category), key))
        THEN Result(ls, Bool(~EntryExpired(GetProp(GetProp(cache, category), key))))
        ELSE Result(ls, Bool(FALSE))

cacheIsValid(ls, category, key, maxAge) ==
    LET cache == cacheLoad(ls)
    IN  IF Truthy(GetProp(cache, category)) /\ Truthy(GetProp(GetProp(cache, category), key))
        THEN LET age == now - GetProp(GetProp(GetProp(cache, category), key), "timestamp").num
             IN  Result(ls, Bool(age < maxAge))
        ELSE Result(ls, Bool(FALSE))

cacheClearCategory(ls, category) ==
    cacheSave(ls, SetProp(cacheLoad(ls), category, EmptyObj))

\* The (category, key) pairs the sweep of clearExpired deletes.
ExpiredCoords(cache) ==
    {ck \in UNION {{<<c, k>> : k \in Keys(GetProp(cache, c))} : c \in Keys(cache)} :
        EntryExpired(GetProp(GetProp(cache, ck[1]), ck[2]))}

cacheClearExpired(ls) ==
    LET cache == cacheLoad(ls)
        gone == ExpiredCoords(cache)
        swept == Obj([c \in Keys(cache) |->
                        Obj([k \in {x \in Keys(GetProp(cache, c)) : <<c, x>> \notin gone} |->
                                GetProp(GetProp(cache, c), k)])])
        s == cacheSave(ls, swept)
    IN  IF Is(s.ret, "throw") THEN s ELSE Result(s.ls, Num(Cardinality(gone)))

cacheClear(ls) == Result(removeItem(ls, CACHE), Bool(TRUE))

\* stats.totalEntries of getStats
cacheGetStats(ls) ==
    LET cache == cacheLoad(ls)
    IN  Result(ls, Num(Cardinality(
            UNION {{<<c, k>> : k \in Keys(GetProp(cache, c))} : c \in Keys(cache)})))

----------------------------------------------------------------------------
(* Helpers of the collections *)

\* generateId(): `${Date.now()}_${Math.random().toString(36).substr(2, 9)}`,
\* rnd being the random suffix.
generateId(rnd) == Str(ToString(now) \o "_" \o rnd)

\* new Date().toISOString(), for clock values below 10 ms
toISOString == Str("1970-01-01T00:00:00.00" \o ToString(now) \o "Z")

\* String.prototype.toUpperCase, on the symbols in use
toUpperCase(v) ==
    CASE v = Str("aapl") -> Str("AAPL")
      [] v = Str("msft") -> Str("MSFT")
      [] OTHER -> v

Numerals == ("0" :> 0) @@ ("1" :> 1) @@ ("2" :> 2) @@ ("3" :> 3) @@ ("4" :> 4)
                @@ ("-5" :> 0 - 5) @@ ("5" :> 5) @@ ("10" :> 10) @@ ("150" :> 150)
                @@ ("250" :> 250) @@ ("1000" :> 1000) @@ ("900" :> 900)
                @@ ("1200" :> 1200)

\* parseFloat: a number for a number or a numeral, NaN otherwise.
parseFloat(v) ==
    CASE Is(v, "num") -> v
      [] Is(v, "str") -> IF v.str \in DOMAIN Numerals THEN Num(Numerals[v.str]) ELSE NaN
      [] OTHER -> NaN

\* parseInt, for whole numerals
parseInt(v) == parseFloat(v)

\* a || b
Or(a, b) == IF Truthy(a) THEN a ELSE b

\* a === b, for primitive values
StrictEquals(a, b) == a = b /\ ~Is(a, "nan")

\* { ...a, ...b }
Spread(a, b) ==
    Obj([f \in DOMAIN a.obj \cup DOMAIN b.obj |->
            IF f \in DOMAIN b.obj THEN b.obj[f] ELSE a.obj[f]])

\* array.findIndex(x => x.id === id), 0 standing for -1
findIndexById(arr, id) ==
    LET hits == {i \in 1..Len(arr) : StrictEquals(GetProp(arr[i], "id"), id)}
    IN  IF hits = {} THEN 0 ELSE CHOOSE i \in hits : \A j \in hits : i <= j

\* array.filter(x => x.id !== id)
filterOutId(arr, id) ==
    SelectSeq(arr, LAMBDA x : ~StrictEquals(GetProp(x, "id"), id))

----------------------------------------------------------------------------
(* portfolioStorage, transactionStorage, expenseStorage, goalStorage *)

\* The four collections, by the name of their storage key in STORAGE_KEYS.
Collections == {"PORTFOLIO", "TRANSACTIONS", "EXPENSES", "GOALS"}

\* load() of the collection c
collLoad(ls, c) == safeParse(ls[STORAGE_KEYS[c]], Arr(<<>>))

\* collSave with an empty sequence taken for nothing to save.
collSave_skipsEmpty(ls, c, x) ==
    LET data == safeStringify(x)
    IN  IF Truthy(data) /\ Is(x, "arr") /\ Len(x.arr) > 0
        THEN LET w == setItem(ls, STORAGE_KEYS[c], data)
             IN  IF Is(w.ret, "throw") THEN w ELSE Result(w.ls, Bool(TRUE))
        ELSE Result(ls, Bool(FALSE))

\* save(x) of the collection c
collSave(ls, c, x) ==
    LET data == safeStringify(x)
    IN  IF Truthy(data)
        THEN LET w == setItem(ls, STORAGE_KEYS[c], data)
             IN  IF Is(w.ret, "throw") THEN w ELSE Result(w.ls, Bool(TRUE))
        ELSE Result(ls, Bool(FALSE))

newHolding(holding, rnd) ==
    Obj([id |-> generateId(rnd),
         symbol |-> toUpperCase(GetProp(holding, "symbol")),
         quantity |-> parseFloat(GetProp(holding, "quantity")),
         avgCost |-> parseFloat(GetProp(holding, "avgCost")),
         purchaseDate |-> Or(GetProp(holding, "purchaseDate"), toISOString),
         createdAt |-> toISOString])

newTransaction(transaction, rnd) ==
    Obj([id |-> generateId(rnd),
         date |-> Or(GetProp(transaction, "date"), toISOString),
         type |-> GetProp(transaction, "type"),
         symbol |-> toUpperCase(GetProp(transaction, "symbol")),
         quantity |-> parseFloat(GetProp(transaction, "quantity")),
         price |-> parseFloat(GetProp(transaction, "price")),
         notes |-> Or(GetProp(transaction, "notes"), Str("")),
         createdAt |-> toISOString])

newExpense(expense, rnd) ==
    Obj([id |-> generateId(rnd),
         date |-> Or(GetProp(expense, "date"), toISOString),
         category |-> GetProp(expense, "category"),
         amount |-> parseFloat(GetProp(expense, "amount")),
         description |-> Or(GetProp(expense, "description"), Str("")),
         merchant |-> Or(GetProp(expense, "merchant"), Str("")),
         createdAt |-> toISOString])

newGoal(goal, rnd) ==
    Obj([id |-> generateId(rnd),
         title |-> GetProp(goal, "title"),
         targetAmount |-> parseFloat(GetProp(goal, "targetAmount")),
         currentAmount |-> parseFloat(Or(GetProp(goal, "currentAmount"), Num(0))),
         deadline |-> Or(GetProp(goal, "deadline"), Null),
         createdAt |-> toISOString])

newRecord(c, input, rnd) ==
    CASE c = "PORTFOLIO" -> newHolding(input, rnd)
      [] c = "TRANSACTIONS" -> newTransaction(input, rnd)
      [] c = "EXPENSES" -> newExpense(input, rnd)
      [] c = "GOALS" -> newGoal(input, rnd)

\* collAdd with the new record saved alone instead of the grown collection.
collAdd_savesNewOnly(ls, c, input, rnd) ==
    LET items == collLoad(ls, c)
    IN  IF ~Is(items, "arr")
        THEN Result(ls, Throw("TypeError"))
        ELSE LET s == collSave(ls, c, Arr(<<newRecord(c, input, rnd)>>))
             IN  IF Is(s.ret, "throw") THEN s ELSE Result(s.ls, newRecord(c, input, rnd))

\* add(input) of the collection c: load, push, save, return the new record.
\* The result of save is ignored; an exception of setItem is not caught.
collAdd(ls, c, input, rnd) ==
    LET items == collLoad(ls, c)
    IN  IF ~Is(items, "arr")
        THEN Result(ls, Throw("TypeError"))
        ELSE LET s == collSave(ls, c, Arr(Append(items.arr, newRecord(c, input, rnd))))
             IN  IF Is(s.ret, "throw") THEN s ELSE Result(s.ls, newRecord(c, input, rnd))

\* collUpdate with the save made whether or not a record was found.
collUpdate_savesAlways(ls, c, id, updates) ==
    LET items == collLoad(ls, c)
    IN  IF ~Is(items, "arr")
        THEN Result(ls, Throw("TypeError"))
        ELSE LET index == findIndexById(items.arr, id)
             IN  IF index # 0
                 THEN collSave(ls, c,
                        Arr([items.arr EXCEPT ![index] =
                                Spread(Spread(items.arr[index], updates),
                                       Obj([updatedAt |-> toISOString]))]))
                 ELSE collSave(ls, c, items)

\* update(id, updates) of portfolioStorage, expenseStorage and goalStorage
collUpdate(ls, c, id, updates) ==
    LET items == collLoad(ls, c)
    IN  IF ~Is(items, "arr")
        THEN Result(ls, Throw("TypeError"))
        ELSE LET index == findIndexById(items.arr, id)
             IN  IF index # 0
                 THEN collSave(ls, c,
                        Arr([items.arr EXCEPT ![index] =
                                Spread(Spread(items.arr[index], updates),
                                       Obj([updatedAt |-> toISOString]))]))
                 ELSE Result(ls, Bool(FALSE))

\* collDelete with the cached stock prices evicted along with the record.
collDelete_evictsPrices(ls, c, id) ==
    LET items == collLoad(ls, c)
    IN  IF ~Is(items, "arr")
        THEN Result(ls, Throw("TypeError"))
        ELSE collSave(cacheClearCategory(ls, "stockPrices").ls, c,
                      Arr(filterOutId(items.arr, id)))

\* delete(id) of the collection c
collDelete(ls, c, id) ==
    LET items == collLoad(ls, c)
    IN  IF ~Is(items, "arr")
        THEN Result(ls, Throw("TypeError"))
        ELSE collSave(ls, c, Arr(filterOutId(items.arr, id)))

\* clear() of the collection c
collClear(ls, c) == Result(removeItem(ls, STORAGE_KEYS[c]), Bool(TRUE))

\* portfolioStorage.getBySymbol(symbol): the first holding whose symbol is
\* symbol.toUpperCase(), or null.
getBySymbol(ls, symbol) ==
    LET holdings == collLoad(ls, "PORTFOLIO").arr
        hits == {i \in 1..Len(holdings) :
                    StrictEquals(GetProp(holdings[i], "symbol"), toUpperCase(symbol))}
    IN  Result(ls, IF hits = {} THEN Null
                   ELSE holdings[CHOOSE i \in hits : \A j \in hits : i <= j])

\* JSON.parse(localStorage.getItem(key)) || [], as the main script and the goals
\* script read their lists when they are loaded; a SyntaxError is not caught.
moduleRead(ls, key) ==
    IF JSONparseThrows(ls[key])
    THEN Result(ls, Throw("SyntaxError"))
    ELSE Result(ls, Or(JSONparse(ls[key]), Arr(<<>>)))

----------------------------------------------------------------------------
(* Inputs *)

Categories == {"stockPrices", "custom"}
CacheKeys == {"AAPL"}
CacheValues == {Num(150), Obj([price |-> Num(150)])}
TtlArgs == {Null} \cup {Num(n) : n \in 0..MaxTtl}

Coords == Categories \X CacheKeys

RandomSuffixes == {"k3x", "9qz"}

\* Two inputs of add per collection: form strings with the optional fields
\* left out, and numbers with the optional fields given.
InputA(c) ==
    CASE c = "PORTFOLIO" ->
            Obj([symbol |-> Str("aapl"), quantity |-> Str("10"), avgCost |-> Str("150")])
      [] c = "TRANSACTIONS" ->
            Obj([type |-> Str("buy"), symbol |-> Str("aapl"), quantity |-> Str("10"),
                 price |-> Str("150")])
      [] c = "EXPENSES" ->
            Obj([category |-> Str("food"), amount |-> Str("10")])
      [] c = "GOALS" ->
            Obj([title |-> Str("Emergency Fund"), targetAmount |-> Str("1000"),
                 currentAmount |-> Str("250")])

InputB(c) ==
    CASE c = "PORTFOLIO" ->
            Obj([symbol |-> Str("MSFT"), quantity |-> Num(5), avgCost |-> Num(250),
                 purchaseDate |-> Str("2024-01-15")])
      [] c = "TRANSACTIONS" ->
            Obj([type |-> Str("sell"), symbol |-> Str("MSFT"), quantity |-> Num(5),
                 price |-> Num(250), notes |-> Str("rebalance"), date |-> Str("2024-01-15")])
      [] c = "EXPENSES" ->
            Obj([category |-> Str("rent"), amount |-> Num(1000), description |-> Str("flat"),
                 merchant |-> Str("landlord"), date |-> Str("2024-01-15")])
      [] c = "GOALS" ->
            Obj([title |-> Str("Car"), targetAmount |-> Num(5), deadline |-> Str("2025-01-01")])

AddArgs(c) == {InputA(c), InputB(c)}

\* The arguments of save: every sequence of at most MaxRecords records out of
\* two records of different shape and id, one as add makes it and one as
\* update leaves it.
SampleRecords(c) ==
    {newRecord(c, InputA(c), "k3x"),
     Spread(newRecord(c, InputB(c), "9qz"), Obj([updatedAt |-> toISOString]))}
SaveArgs(c) == {Arr(x) : x \in UNION {[1..n -> SampleRecords(c)] : n \in 0..MaxRecords}}

IdArgs == {generateId(rnd) : rnd \in RandomSuffixes} \cup {Str("missing")}

UpdateArgs == {Obj([quantity |-> Num(5)]),
               Obj([symbol |-> Str("msft"), notes |-> Str("edited")])}

Updatable == {"PORTFOLIO", "EXPENSES", "GOALS"}

SymbolArgs == {Str("aapl"), Str("AAPL"), Str("msft"), Str("MSFT")}

\* A storage an earlier session left: a cached price point and one record in
\* every collection.
SeedStorage ==
    LET s1 == cacheSet(EmptyStorage, "stockPrices", "AAPL", Obj([price |-> Num(150)]), Null).ls
        s2 == collAdd(s1, "PORTFOLIO", InputA("PORTFOLIO"), "k3x").ls
        s3 == collAdd(s2, "TRANSACTIONS", InputA("TRANSACTIONS"), "k3x").ls
        s4 == collAdd(s3, "EXPENSES", InputA("EXPENSES"), "k3x").ls
    IN  collAdd(s4, "GOALS", InputA("GOALS"), "k3x").ls

\* The entry persisted at (category, key) in the storage ls, undefined when none.
EntryAt(ls, category, key) == GetProp(GetProp(cacheLoad(ls), category), key)
HasEntry(ls, category, key) == Is(EntryAt(ls, category, key), "obj")
Age(entry) == now - GetProp(entry, "timestamp").num

\* Every (category, key) at which the storage ls holds an entry.
AllCoords(ls) ==
    LET cache == cacheLoad(ls)
    IN  UNION {{<<c, k>> : k \in Keys(GetProp(cache, c))} : c \in Keys(cache)}

----------------------------------------------------------------------------
(* Actions *)

\* Every operation runs to completion from the idle event loop and leaves its
\* arguments, its outcome and the storage it started from in call, ret and prev;
\* Return hands control back to the event loop.
Idle == call = <<"idle">>

\* An operation that is not waiting for a response returns to its caller.
Return ==
    /\ ~Idle
    /\ call[1] # "await"
    /\ call' = <<"idle">>
    /\ ret' = Undefined
    /\ prev' = localStorage
    /\ prevGoals' = goals
    /\ fetches' = 0
    /\ started' = [at |-> 0]
    /\ UNCHANGED <<goals, goalsContainer, chartVars, mainVars, formVars, portfolioVars, searchVars>>
    /\ UNCHANGED <<now, localStorage, quotaExceeded, lastSet, coll, added>>

\* The clock advances between operations.
Tick ==
    /\ Idle
    /\ now < MaxTime
    /\ now' = now + 1
    /\ prev' = localStorage
    /\ UNCHANGED pageVars /\ UNCHANGED <<localStorage, quotaExceeded, call, ret, lastSet, coll, added>>

CacheSet ==
    \E category \in Categories, key \in CacheKeys, value \in CacheValues, ttl \in TtlArgs :
        LET r == cacheSet(localStorage, category, key, value, ttl)
        IN  /\ Idle
            /\ call' = <<"cache.set", category, key, value, ttl>>
            /\ ret' = r.ret
            /\ localStorage' = r.ls
            /\ prev' = localStorage
            /\ lastSet' = IF r.ret = Bool(TRUE)
                          THEN [lastSet EXCEPT ![<<category, key>>] = NewEntry(value, ttl)]
                          ELSE lastSet
            /\ UNCHANGED pageVars /\ UNCHANGED <<now, quotaExceeded, coll, added>>

CacheGet ==
    \E category \in Categories, key \in CacheKeys :
        LET r == cacheGet(localStorage, category, key)
        IN  /\ Idle
            /\ call' = <<"cache.get", category, key>>
            /\ ret' = r.ret
            /\ localStorage' = r.ls
            /\ prev' = localStorage
            /\ lastSet' = lastSet
            /\ UNCHANGED pageVars /\ UNCHANGED <<now, quotaExceeded, coll, added>>

CacheIsValid ==
    \E category \in Categories, key \in CacheKeys, maxAge \in 0..MaxAge :
        LET r == cacheIsValid(localStorage, category, key, maxAge)
        IN  /\ Idle
            /\ call' = <<"cache.isValid", category, key, maxAge>>
            /\ ret' = r.ret
            /\ localStorage' = r.ls
            /\ prev' = localStorage
            /\ lastSet' = lastSet
            /\ UNCHANGED pageVars /\ UNCHANGED <<now, quotaExceeded, coll, added>>

CacheDelete ==
    \E category \in Categories, key \in CacheKeys :
        LET r == cacheDelete(localStorage, category, key)
        IN  /\ Idle
            /\ call' = <<"cache.delete", category, key>>
            /\ ret' = r.ret
            /\ localStorage' = r.ls
            /\ prev' = localStorage
            /\ lastSet' = [lastSet EXCEPT ![<<category, key>>] = Null]
            /\ UNCHANGED pageVars /\ UNCHANGED <<now, quotaExceeded, coll, added>>

CacheClearCategory ==
    \E category \in Categories :
        LET r == cacheClearCategory(localStorage, category)
        IN  /\ Idle
            /\ call' = <<"cache.clearCategory", category>>
            /\ ret' = r.ret
            /\ localStorage' = r.ls
            /\ prev' = localStorage
            /\ lastSet' = [ck \in Coords |-> IF ck[1] = category THEN Null ELSE lastSet[ck]]
            /\ UNCHANGED pageVars /\ UNCHANGED <<now, quotaExceeded, coll, added>>

CacheClearExpired ==
    LET r == cacheClearExpired(localStorage)
    IN  /\ Idle
        /\ call' = <<"cache.clearExpired">>
        /\ ret' = r.ret
        /\ localStorage' = r.ls
        /\ prev' = localStorage
        /\ lastSet' = lastSet
        /\ UNCHANGED pageVars /\ UNCHANGED <<now, quotaExceeded, coll, added>>

CacheClear ==
    LET r == cacheClear(localStorage)
    IN  /\ Idle
        /\ call' = <<"cache.clear">>
        /\ ret' = r.ret
        /\ localStorage' = r.ls
        /\ prev' = localStorage
        /\ lastSet' = [ck \in Coords |-> Null]
        /\ UNCHANGED pageVars /\ UNCHANGED <<now, quotaExceeded, coll, added>>

CacheGetStats ==
    LET r == cacheGetStats(localStorage)
    IN  /\ Idle
        /\ call' = <<"cache.getStats">>
        /\ ret' = r.ret
        /\ localStorage' = r.ls
        /\ prev' = localStorage
        /\ lastSet' = lastSet
        /\ UNCHANGED pageVars /\ UNCHANGED <<now, quotaExceeded, coll, added>>

----------------------------------------------------------------------------
(* Actions of the collections *)

CollLoad ==
    /\ Idle
    /\ call' = <<"load", coll>>
    /\ ret' = collLoad(localStorage, coll)
    /\ prev' = localStorage
    /\ UNCHANGED pageVars /\ UNCHANGED <<now, localStorage, quotaExceeded, lastSet, coll, added>>

CollSave ==
    \E x \in SaveArgs(coll) :
        LET r == collSave(localStorage, coll, x)
        IN  /\ Idle
            /\ call' = <<"save", coll, x>>
            /\ ret' = r.ret
            /\ localStorage' = r.ls
            /\ prev' = localStorage
            /\ added' = <<>>
            /\ UNCHANGED pageVars /\ UNCHANGED <<now, quotaExceeded, lastSet, coll>>

CollAdd ==
    \E input \in AddArgs(coll), rnd \in RandomSuffixes :
        LET r == collAdd(localStorage, coll, input, rnd)
        IN  /\ Idle
            /\ Is(collLoad(localStorage, coll), "arr")
                => Len(collLoad(localStorage, coll).arr) < MaxRecords
            /\ call' = <<"add", coll, input>>
            /\ ret' = r.ret
            /\ localStorage' = r.ls
            /\ prev' = localStorage
            /\ added' = IF Is(r.ret, "throw") THEN added ELSE Append(added, r.ret)
            /\ UNCHANGED pageVars /\ UNCHANGED <<now, quotaExceeded, lastSet, coll>>

CollUpdate ==
    \E id \in IdArgs, updates \in UpdateArgs :
        LET r == collUpdate(localStorage, coll, id, updates)
        IN  /\ Idle
            /\ coll \in Updatable
            /\ call' = <<"update", coll, id, updates>>
            /\ ret' = r.ret
            /\ localStorage' = r.ls
            /\ prev' = localStorage
            /\ added' = <<>>
            /\ UNCHANGED pageVars /\ UNCHANGED <<now, quotaExceeded, lastSet, coll>>

CollDelete ==
    \E id \in IdArgs :
        LET r == collDelete(localStorage, coll, id)
        IN  /\ Idle
            /\ call' = <<"delete", coll, id>>
            /\ ret' = r.ret
            /\ localStorage' = r.ls
            /\ prev' = localStorage
            /\ added' = <<>>
            /\ UNCHANGED pageVars /\ UNCHANGED <<now, quotaExceeded, lastSet, coll>>

CollClear ==
    LET r == collClear(localStorage, coll)
    IN  /\ Idle
        /\ call' = <<"clear", coll>>
        /\ ret' = r.ret
        /\ localStorage' = r.ls
        /\ prev' = localStorage
        /\ added' = <<>>
        /\ UNCHANGED pageVars /\ UNCHANGED <<now, quotaExceeded, lastSet, coll>>

\* The origin's storage fills up: from now on setItem throws.
CollGetBySymbol ==
    \E symbol \in SymbolArgs :
        LET r == getBySymbol(localStorage, symbol)
        IN  /\ Idle
            /\ coll = "PORTFOLIO"
            /\ call' = <<"getBySymbol", symbol>>
            /\ ret' = r.ret
            /\ localStorage' = r.ls
            /\ prev' = localStorage
            /\ UNCHANGED pageVars /\ UNCHANGED <<now, quotaExceeded, lastSet, coll, added>>

QuotaReached ==
    /\ Idle
    /\ ~quotaExceeded
    /\ quotaExceeded' = TRUE
    /\ UNCHANGED pageVars /\ UNCHANGED <<now, localStorage, prev, call, ret, lastSet, coll, added>>

\* The read a script makes of its list when it is loaded.
ModuleRead ==
    \E key \in ModuleKeys :
        LET r == moduleRead(localStorage, key)
        IN  /\ Idle
            /\ call' = <<"moduleRead", key>>
            /\ ret' = r.ret
            /\ localStorage' = r.ls
            /\ prev' = localStorage
            /\ UNCHANGED pageVars /\ UNCHANGED <<now, quotaExceeded, lastSet, coll, added>>

----------------------------------------------------------------------------
(* Specifications *)

\* The tooltip element as addChartHover creates it.
NewTooltip == [display |-> "none", date |-> "", price |-> "", left |-> 0, top |-> 0]

\* The row a table of the main script shows when it has no items.
NoItemsRow == "No items recorded yet"

\* The goal form as the page has it: the submit button adds a goal, there is no
\* edit id and no cancel button.
AddMode == [submitText |-> "Add Goal", editId |-> Undefined, cancelBtn |-> FALSE]

\* The holdings table and the summary before displayPortfolioHoldings has run,
\* and the search results element as the page has it.
NoTable == [state |-> "none", rows |-> <<>>]
NoSummary == [totalValue |-> "", totalCost |-> "", totalGain |-> ""]
\* The search input before any input event, with the time of its last event.
NoInput == [value |-> [str |-> ""], at |-> 0]

\* The search results element before any search: its message, its result items,
\* its display style, and the query of the search that wrote its content last.
NoResults == [text |-> "", items |-> <<>>, display |-> "none", query |-> ""]

\* The page scripts before any of them has run.
InitPage ==
    /\ goals = <<>>
    /\ goalsContainer = <<>>
    /\ prevGoals = <<>>
    /\ goalForm = AddMode
    /\ chart = Null
    /\ tooltip = NewTooltip
    /\ series = <<>>
    /\ incomeItems = <<>>
    /\ spendingItems = <<>>
    /\ savingsGoals = <<>>
    /\ incomeRows = <<NoItemsRow>>
    /\ spendingRows = <<NoItemsRow>>
    /\ refreshes = <<>>
    /\ tbody = NoTable
    /\ summary = NoSummary
    /\ searchInput = NoInput
    /\ searchTimeout = Null
    /\ timers = <<>>
    /\ searchResults = NoResults
    /\ searches = <<>>
    /\ issued = <<>>
    /\ fetches = 0
    /\ started = [at |-> 0]

InitCache ==
    /\ now = 0
    /\ localStorage = EmptyStorage
    /\ quotaExceeded = FALSE
    /\ prev = EmptyStorage
    /\ call = <<"idle">>
    /\ ret = Undefined
    /\ lastSet = [ck \in Coords |-> Null]
    /\ coll = "PORTFOLIO"
    /\ added = <<>>
    /\ InitPage

CacheNext ==
    \/ Return
    \/ Tick
    \/ CacheSet
    \/ CacheGet
    \/ CacheIsValid
    \/ CacheDelete
    \/ CacheClearCategory
    \/ CacheClearExpired
    \/ CacheClear
    \/ CacheGetStats

\* The cache operations under a running clock; every storage write is accepted.
SpecCache == InitCache /\ [][CacheNext]_vars

\* The operations of one collection on a storage that holds a cached price
\* point and records of the other collections; every storage write is accepted.
InitColl ==
    /\ now = 0
    /\ quotaExceeded = FALSE
    /\ coll \in Collections
    /\ localStorage = [SeedStorage EXCEPT ![STORAGE_KEYS[coll]] = Null]
    /\ prev = localStorage
    /\ call = <<"idle">>
    /\ ret = Undefined
    /\ lastSet = [ck \in Coords |-> Null]
    /\ added = <<>>
    /\ InitPage

CollNext ==
    \/ Return
    \/ CollLoad
    \/ CollSave
    \/ CollAdd
    \/ CollUpdate
    \/ CollDelete
    \/ CollClear
    \/ CollGetBySymbol

SpecColl == InitColl /\ [][CollNext]_vars

\* One write, with the storage accepting it or over its quota.
InitWrite ==
    /\ now = 0
    /\ quotaExceeded = FALSE
    /\ coll \in Collections
    /\ localStorage \in {EmptyStorage, SeedStorage}
    /\ prev = localStorage
    /\ call = <<"idle">>
    /\ ret = Undefined
    /\ lastSet = [ck \in Coords |-> Null]
    /\ added = <<>>
    /\ InitPage

WriteNext ==
    \/ QuotaReached
    \/ CacheSet
    \/ CollSave

SpecWrite == InitWrite /\ [][WriteNext]_vars

\* Stored texts as a reader can find them under one key: none, the empty
\* string, text that is no JSON, and JSON of a value of every kind.
StoredTexts ==
    {Null, Str(""), Str("{not json"),
     [json |-> Null], [json |-> Num(0)], [json |-> EmptyObj], [json |-> Arr(<<>>)],
     [json |-> Arr(<<Obj([id |-> Num(1)])>>)]}

\* One read of a storage in which one key holds any stored text.
InitRead ==
    /\ now = 0
    /\ quotaExceeded = FALSE
    /\ coll \in Collections
    /\ \E key \in StorageKeys, text \in StoredTexts :
            localStorage = [EmptyStorage EXCEPT ![key] = text]
    /\ prev = localStorage
    /\ call = <<"idle">>
    /\ ret = Undefined
    /\ lastSet = [ck \in Coords |-> Null]
    /\ added = <<>>
    /\ InitPage

ReadNext ==
    \/ CollLoad
    \/ ModuleRead

SpecRead == InitRead /\ [][ReadNext]_vars

----------------------------------------------------------------------------
(* goals.js: the savings goals page *)

\* Math.round(100 * current / target) for integers and target # 0: the nearest
\* integer, a tie going up.
roundedPercent(current, target) ==
    IF target > 0
    THEN (200 * current + target) \div (2 * target)
    ELSE (0 - 200 * current - target) \div (0 - 2 * target)

\* Math.min(a, b) for integers
MathMin(a, b) == IF a <= b THEN a ELSE b

\* calculatePercentage without its Math.min: not the program's.
calculatePercentage_unclamped(current, target) ==
    IF StrictEquals(target, Num(0))
    THEN Num(0)
    ELSE IF Is(current, "num") /\ Is(target, "num")
         THEN Num(roundedPercent(current.num, target.num))
         ELSE NaN

\* calculatePercentage(current, target) of goals.js
calculatePercentage(current, target) ==
    IF StrictEquals(target, Num(0))
    THEN Num(0)
    ELSE IF Is(current, "num") /\ Is(target, "num")
         THEN Num(MathMin(roundedPercent(current.num, target.num), 100))
         ELSE NaN

\* a + b on numbers
Plus(a, b) == IF Is(a, "num") /\ Is(b, "num") THEN Num(a.num + b.num) ELSE NaN

\* a > b on numbers: false when either is NaN
GreaterThan(a, b) == Is(a, "num") /\ Is(b, "num") /\ a.num > b.num

\* new Date(deadline), in days, of the deadlines in use
dateValue == ("2026-06-30" :> 1) @@ ("2026-12-31" :> 2)

\* The comparator of displayGoals: goals with a deadline first, the soonest
\* first; goals without one after them, the newest id first.
compareGoals(a, b) ==
    LET da == GetProp(a, "deadline")
        db == GetProp(b, "deadline")
    IN  IF ~Truthy(da) /\ ~Truthy(db) THEN GetProp(b, "id").num - GetProp(a, "id").num
        ELSE IF ~Truthy(da) THEN 1
        ELSE IF ~Truthy(db) THEN 0 - 1
        ELSE dateValue[da.str] - dateValue[db.str]

\* x put into the sorted sequence s behind every element that does not come
\* after it (Array.prototype.sort is stable).
insertGoal(s, x) ==
    LET later == {i \in 1..Len(s) : compareGoals(s[i], x) > 0}
        at == IF later = {} THEN Len(s) + 1 ELSE CHOOSE i \in later : \A j \in later : i <= j
    IN  SubSeq(s, 1, at - 1) \o <<x>> \o SubSeq(s, at, Len(s))

RECURSIVE sortGoals(_)
\* [...goals].sort(compareGoals)
sortGoals(s) ==
    IF s = <<>> THEN <<>> ELSE insertGoal(sortGoals(SubSeq(s, 1, Len(s) - 1)), s[Len(s)])

\* createGoalCard(goal): the goal the card is of and the percentage it shows
\* as "<percentage>% Complete".
createGoalCard(goal) ==
    [goalId |-> GetProp(goal, "id"),
     name |-> GetProp(goal, "name"),
     percentage |-> calculatePercentage(GetProp(goal, "currentProgress"),
                                        GetProp(goal, "targetAmount"))]

\* displayGoals(): the cards of the goals container.
displayGoals(g) ==
    LET sortedGoals == sortGoals(g)
    IN  [i \in 1..Len(g) |-> createGoalCard(sortedGoals[i])]

\* saveGoals()
saveGoals(ls, g) == setItem(ls, "savingsGoals", JSONstringify(Arr(g)))

\* The outcome of a goals operation: the module's array, the storage, the cards
\* on the page and the value returned or the exception thrown.
GoalsResult(g, ls, cards, r) == [goals |-> g, ls |-> ls, cards |-> cards, ret |-> r]

\* saveGoals(); displayGoals(); as every operation ends: when the write throws,
\* the array keeps the change and the page is not rendered again.
saveGoalsAndDisplay(g, ls, cards, r) ==
    LET s == saveGoals(ls, g)
    IN  IF Is(s.ret, "throw")
        THEN GoalsResult(g, ls, cards, s.ret)
        ELSE GoalsResult(g, s.ls, displayGoals(g), r)

\* addGoal(name, targetAmount, currentProgress, deadline)
addGoal(g, ls, cards, name, targetAmount, currentProgress, deadline) ==
    LET goal == Obj([id |-> Num(now),
                     name |-> name,
                     targetAmount |-> parseFloat(targetAmount),
                     currentProgress |-> parseFloat(currentProgress),
                     deadline |-> Or(deadline, Null),
                     dateCreated |-> toISOString])
    IN  saveGoalsAndDisplay(Append(g, goal), ls, cards, goal)

\* updateGoal(goalId, name, targetAmount, currentProgress, deadline)
updateGoal(g, ls, cards, goalId, name, targetAmount, currentProgress, deadline) ==
    LET goalIndex == findIndexById(g, goalId)
    IN  IF goalIndex = 0
        THEN GoalsResult(g, ls, cards, Undefined)
        ELSE saveGoalsAndDisplay(
                [g EXCEPT ![goalIndex] =
                    Spread(g[goalIndex],
                           Obj([name |-> name,
                                targetAmount |-> parseFloat(targetAmount),
                                currentProgress |-> parseFloat(currentProgress),
                                deadline |-> Or(deadline, Null)]))],
                ls, cards, Undefined)

\* deleteGoal(goalId), confirmed being the answer to the confirm dialog
deleteGoal(g, ls, cards, goalId, confirmed) ==
    IF findIndexById(g, goalId) = 0 \/ ~confirmed
    THEN GoalsResult(g, ls, cards, Undefined)
    ELSE saveGoalsAndDisplay(filterOutId(g, goalId), ls, cards, Undefined)

\* updateGoalProgress(goalId, newProgress)
updateGoalProgress(g, ls, cards, goalId, newProgress) ==
    LET i == findIndexById(g, goalId)
    IN  IF i = 0
        THEN GoalsResult(g, ls, cards, Undefined)
        ELSE saveGoalsAndDisplay(
                [g EXCEPT ![i] = SetProp(g[i], "currentProgress", parseFloat(newProgress))],
                ls, cards, Undefined)

\* quickAddProgress without the "Don't exceed target" step: not the program's.
quickAddProgress_noClamp(g, ls, cards, goalId, amount) ==
    LET i == findIndexById(g, goalId)
        sum == Plus(GetProp(g[i], "currentProgress"), parseFloat(amount))
    IN  IF i = 0
        THEN GoalsResult(g, ls, cards, Undefined)
        ELSE saveGoalsAndDisplay([g EXCEPT ![i] = SetProp(g[i], "currentProgress", sum)],
                                 ls, cards, Undefined)

\* quickAddProgress(goalId, amount)
quickAddProgress(g, ls, cards, goalId, amount) ==
    LET i == findIndexById(g, goalId)
        sum == Plus(GetProp(g[i], "currentProgress"), parseFloat(amount))
        targetAmount == GetProp(g[i], "targetAmount")
    IN  IF i = 0
        THEN GoalsResult(g, ls, cards, Undefined)
        ELSE saveGoalsAndDisplay(
                [g EXCEPT ![i] = SetProp(g[i], "currentProgress",
                                    IF GreaterThan(sum, targetAmount)
                                    THEN targetAmount ELSE sum)],
                ls, cards, Undefined)

RECURSIVE calculateTotalSavings(_)
\* calculateTotalSavings(): goals.reduce((total, goal) => total + goal.currentProgress, 0)
calculateTotalSavings(g) ==
    IF g = <<>>
    THEN Num(0)
    ELSE Plus(calculateTotalSavings(SubSeq(g, 1, Len(g) - 1)),
              GetProp(g[Len(g)], "currentProgress"))

\* total.toFixed(2), of a whole number or NaN
totalToFixed2(total) ==
    IF Is(total, "num") THEN Str(ToString(total.num) \o ".00") ELSE Str("NaN")

\* updateDashboardSavings()
updateDashboardSavings(ls, g) ==
    setItem(ls, "totalSavings", totalToFixed2(calculateTotalSavings(g)))

\* initGoalsPage() on the goals page: the goals are displayed and the total of
\* the savings is written.
initGoalsPage(ls, g) ==
    LET s == updateDashboardSavings(ls, g)
    IN  GoalsResult(g, s.ls, displayGoals(g), s.ret)

\* cancelEdit(): the form is reset, the submit button adds a goal again, the
\* edit id is deleted and the cancel button removed.
cancelEdit(form) == AddMode

\* The form after updateGoal(goalId, ...) on the goals g has returned or thrown
\* r: updateGoal ends with cancelEdit() when it found the goal and wrote it.
formAfterUpdate(g, goalId, r, form) ==
    IF findIndexById(g, goalId) = 0 \/ Is(r, "throw") THEN form ELSE cancelEdit(form)

\* String(goalId), as dataset.editId holds it
StringOf(v) == IF Is(v, "num") THEN Str(ToString(v.num)) ELSE v

\* editGoal(goalId): the form after it.
editGoal(g, goalId, form) ==
    IF findIndexById(g, goalId) = 0
    THEN form
    ELSE [submitText |-> "Update Goal", editId |-> StringOf(goalId), cancelBtn |-> TRUE]

\* value.trim(), on the names in use
trim(v) == IF v = Str("  ") THEN Str("") ELSE v

\* a <= b and a < b on numbers: false when either is NaN
LessOrEqual(a, b) == Is(a, "num") /\ Is(b, "num") /\ a.num <= b.num
Less(a, b) == Is(a, "num") /\ Is(b, "num") /\ a.num < b.num

\* handleGoalFormSubmit(e), the fields of the form holding value, targetAmount,
\* currentProgress and deadline: the outcome for the goals, and the form after it.
handleGoalFormSubmit(g, ls, cards, form, value, targetAmount, currentProgress, deadline) ==
    LET name == trim(value)
        editId == form.editId
        updated == updateGoal(g, ls, cards, parseInt(editId), name,
                              targetAmount, currentProgress, deadline)
    IN  IF ~Truthy(name) \/ ~Truthy(targetAmount) \/ ~Truthy(currentProgress)
        THEN [goals |-> GoalsResult(g, ls, cards, Undefined), form |-> form]
        ELSE IF LessOrEqual(parseFloat(targetAmount), Num(0))
        THEN [goals |-> GoalsResult(g, ls, cards, Undefined), form |-> form]
        ELSE IF Less(parseFloat(currentProgress), Num(0))
        THEN [goals |-> GoalsResult(g, ls, cards, Undefined), form |-> form]
        ELSE IF Truthy(editId)
        THEN [goals |-> [updated EXCEPT !.ret = IF Is(updated.ret, "throw")
                                                THEN updated.ret ELSE Undefined],
              form |-> formAfterUpdate(g, parseInt(editId), updated.ret, form)]
        ELSE LET a == addGoal(g, ls, cards, name, targetAmount, currentProgress, deadline)
             IN  [goals |-> [a EXCEPT !.ret = IF Is(a.ret, "throw") THEN a.ret ELSE Undefined],
                  form |-> form]

(* Inputs of the goals page *)

MaxGoals == 2       \* goals on the page

\* What the goal form submits: name, target amount, current progress, deadline.
GoalForms ==
    {<<Str("Emergency Fund"), Str("1000"), Str("250"), Str("")>>,
     <<Str("Car"), Str("1000"), Str("1200"), Str("2026-12-31")>>}
ProgressArgs == {Str("1200")}
AmountArgs == {Num(900), Str("250")}
GoalIdArgs == {Num(t) : t \in 0..MaxTime} \cup {Num(0 - 1)}

(* Operations of the goals page *)

AddGoal ==
    \E form \in GoalForms :
        LET r == addGoal(goals, localStorage, goalsContainer,
                         form[1], form[2], form[3], form[4])
        IN  /\ Idle
            /\ Len(goals) < MaxGoals
            /\ call' = <<"addGoal", form[1], form[2], form[3], form[4]>>
            /\ ret' = r.ret
            /\ goals' = r.goals
            /\ localStorage' = r.ls
            /\ goalsContainer' = r.cards
            /\ prev' = localStorage
            /\ prevGoals' = goals
            /\ UNCHANGED <<chartVars, adapterVars, mainVars, formVars, portfolioVars, searchVars>>
            /\ UNCHANGED <<now, quotaExceeded, lastSet, coll, added>>

UpdateGoal ==
    \E goalId \in GoalIdArgs, form \in GoalForms :
        LET r == updateGoal(goals, localStorage, goalsContainer,
                            goalId, form[1], form[2], form[3], form[4])
        IN  /\ Idle
            /\ call' = <<"updateGoal", goalId, form[1], form[2], form[3], form[4]>>
            /\ ret' = r.ret
            /\ goals' = r.goals
            /\ localStorage' = r.ls
            /\ goalsContainer' = r.cards
            /\ prev' = localStorage
            /\ prevGoals' = goals
            /\ goalForm' = formAfterUpdate(goals, goalId, r.ret, goalForm)
            /\ UNCHANGED <<chartVars, adapterVars, mainVars, portfolioVars, searchVars>>
            /\ UNCHANGED <<now, quotaExceeded, lastSet, coll, added>>

DeleteGoal ==
    \E goalId \in GoalIdArgs, confirmed \in BOOLEAN :
        LET r == deleteGoal(goals, localStorage, goalsContainer, goalId, confirmed)
        IN  /\ Idle
            /\ call' = <<"deleteGoal", goalId, confirmed>>
            /\ ret' = r.ret
            /\ goals' = r.goals
            /\ localStorage' = r.ls
            /\ goalsContainer' = r.cards
            /\ prev' = localStorage
            /\ prevGoals' = goals
            /\ UNCHANGED <<chartVars, adapterVars, mainVars, formVars, portfolioVars, searchVars>>
            /\ UNCHANGED <<now, quotaExceeded, lastSet, coll, added>>

UpdateGoalProgress ==
    \E goalId \in GoalIdArgs, newProgress \in ProgressArgs :
        LET r == updateGoalProgress(goals, localStorage, goalsContainer, goalId, newProgress)
        IN  /\ Idle
            /\ call' = <<"updateGoalProgress", goalId, newProgress>>
            /\ ret' = r.ret
            /\ goals' = r.goals
            /\ localStorage' = r.ls
            /\ goalsContainer' = r.cards
            /\ prev' = localStorage
            /\ prevGoals' = goals
            /\ UNCHANGED <<chartVars, adapterVars, mainVars, formVars, portfolioVars, searchVars>>
            /\ UNCHANGED <<now, quotaExceeded, lastSet, coll, added>>

QuickAddProgress ==
    \E goalId \in GoalIdArgs, amount \in AmountArgs :
        LET r == quickAddProgress(goals, localStorage, goalsContainer, goalId, amount)
        IN  /\ Idle
            /\ call' = <<"quickAddProgress", goalId, amount>>
            /\ ret' = r.ret
            /\ goals' = r.goals
            /\ localStorage' = r.ls
            /\ goalsContainer' = r.cards
            /\ prev' = localStorage
            /\ prevGoals' = goals
            /\ UNCHANGED <<chartVars, adapterVars, mainVars, formVars, portfolioVars, searchVars>>
            /\ UNCHANGED <<now, quotaExceeded, lastSet, coll, added>>

\* The goals page loaded on an empty storage, under a running clock; every
\* storage write is accepted.
InitGoals ==
    /\ now = 0
    /\ quotaExceeded = FALSE
    /\ localStorage = initGoalsPage(EmptyStorage, <<>>).ls
    /\ prev = localStorage
    /\ call = <<"idle">>
    /\ ret = Undefined
    /\ lastSet = [ck \in Coords |-> Null]
    /\ coll = "GOALS"
    /\ added = <<>>
    /\ InitPage

GoalsNext ==
    \/ Return
    \/ Tick
    \/ AddGoal
    \/ UpdateGoal
    \/ DeleteGoal
    \/ UpdateGoalProgress
    \/ QuickAddProgress

SpecGoals == InitGoals /\ [][GoalsNext]_vars

(* The goal form *)

\* What the fields of the goal form can hold when it is submitted: the forms
\* above, and forms with an empty, blank, zero or negative required field.
GoalFields ==
    GoalForms \cup
    {<<Str(""), Str("1000"), Str("250"), Str("")>>,
     <<Str("  "), Str("1000"), Str("250"), Str("")>>,
     <<Str("Car"), Str(""), Str("250"), Str("")>>,
     <<Str("Car"), Str("1000"), Str(""), Str("")>>,
     <<Str("Car"), Str("0"), Str("250"), Str("")>>,
     <<Str("Car"), Str("-5"), Str("250"), Str("")>>,
     <<Str("Car"), Str("1000"), Str("-5"), Str("")>>}

EditGoal ==
    \E goalId \in GoalIdArgs :
        /\ Idle
        /\ call' = <<"editGoal", goalId>>
        /\ ret' = Undefined
        /\ goalForm' = editGoal(goals, goalId, goalForm)
        /\ prev' = localStorage
        /\ prevGoals' = goals
        /\ UNCHANGED <<goals, goalsContainer>>
        /\ UNCHANGED <<chartVars, adapterVars, mainVars, portfolioVars, searchVars>>
        /\ UNCHANGED <<now, localStorage, quotaExceeded, lastSet, coll, added>>

\* A click on the cancel button, which exists in edit mode.
CancelEdit ==
    /\ Idle
    /\ goalForm.cancelBtn
    /\ call' = <<"cancelEdit">>
    /\ ret' = Undefined
    /\ goalForm' = cancelEdit(goalForm)
    /\ prev' = localStorage
    /\ prevGoals' = goals
    /\ UNCHANGED <<goals, goalsContainer>>
    /\ UNCHANGED <<chartVars, adapterVars, mainVars, portfolioVars, searchVars>>
    /\ UNCHANGED <<now, localStorage, quotaExceeded, lastSet, coll, added>>

\* The goal form is submitted; the call records the fields and the form as it was.
GoalFormSubmit ==
    \E fields \in GoalFields :
        LET r == handleGoalFormSubmit(goals, localStorage, goalsContainer, goalForm,
                                      fields[1], fields[2], fields[3], fields[4])
        IN  /\ Idle
            /\ Truthy(goalForm.editId) \/ Len(goals) < MaxGoals
            /\ call' = <<"handleGoalFormSubmit", fields, goalForm>>
            /\ ret' = r.goals.ret
            /\ goals' = r.goals.goals
            /\ localStorage' = r.goals.ls
            /\ goalsContainer' = r.goals.cards
            /\ goalForm' = r.form
            /\ prev' = localStorage
            /\ prevGoals' = goals
            /\ UNCHANGED <<chartVars, adapterVars, mainVars, portfolioVars, searchVars>>
            /\ UNCHANGED <<now, quotaExceeded, lastSet, coll, added>>

\* The goals page used through its form and the buttons of the goal cards.
GoalFormNext ==
    \/ Return
    \/ Tick
    \/ EditGoal
    \/ CancelEdit
    \/ DeleteGoal
    \/ GoalFormSubmit

SpecGoalForm == InitGoals /\ [][GoalFormNext]_vars

----------------------------------------------------------------------------
(* The main script: spending and income items *)

\* saveToLocalStorage(): the three arrays of the module are written, in this
\* order, until a write throws.
saveToLocalStorage(ls, spending, savings, income) ==
    LET s1 == setItem(ls, "spendingItems", JSONstringify(Arr(spending)))
        s2 == setItem(s1.ls, "savingsGoals", JSONstringify(Arr(savings)))
        s3 == setItem(s2.ls, "incomeItems", JSONstringify(Arr(income)))
    IN  IF Is(s1.ret, "throw") THEN s1
        ELSE IF Is(s2.ret, "throw") THEN s2
        ELSE s3

\* The outcome of an operation on the items of one kind: the array, the storage,
\* the rows of the table and the exception thrown, if any.
ItemsResult(items, ls, rows, r) == [items |-> items, ls |-> ls, rows |-> rows, ret |-> r]

\* The rows of a table rendered again from its items.
refreshTable(items) ==
    IF Len(items) = 0 THEN <<NoItemsRow>> ELSE [i \in 1..Len(items) |-> GetProp(items[i], "id")]

\* addSpendingItem(description, amount, category)
addSpendingItem(spending, savings, income, ls, rows, description, amount, category) ==
    LET item == Obj([id |-> Num(now),
                     description |-> description,
                     amount |-> parseFloat(amount),
                     category |-> category,
                     date |-> toISOString])
        items == Append(spending, item)
        s == saveToLocalStorage(ls, items, savings, income)
    IN  IF Is(s.ret, "throw")
        THEN ItemsResult(items, s.ls, rows, s.ret)
        ELSE ItemsResult(items, s.ls, Append(rows, GetProp(item, "id")), Undefined)

\* deleteSpendingItem(id, confirm), confirmed being the answer to the dialog
deleteSpendingItem(spending, savings, income, ls, rows, id, confirm, confirmed) ==
    LET items == filterOutId(spending, id)
        s == saveToLocalStorage(ls, items, savings, income)
    IN  IF confirm /\ ~confirmed
        THEN ItemsResult(spending, ls, rows, Undefined)
        ELSE IF Is(s.ret, "throw")
        THEN ItemsResult(items, s.ls, rows, s.ret)
        ELSE ItemsResult(items, s.ls, refreshTable(items), Undefined)

\* addIncomeItem(description, amount, source)
addIncomeItem(spending, savings, income, ls, rows, description, amount, source) ==
    LET item == Obj([id |-> Num(now),
                     description |-> description,
                     amount |-> parseFloat(amount),
                     source |-> source,
                     date |-> toISOString])
        items == Append(income, item)
        s == saveToLocalStorage(ls, spending, savings, items)
    IN  IF Is(s.ret, "throw")
        THEN ItemsResult(items, s.ls, rows, s.ret)
        ELSE ItemsResult(items, s.ls, Append(rows, GetProp(item, "id")), Undefined)

\* deleteIncomeItem(id, confirm), confirmed being the answer to the dialog
deleteIncomeItem(spending, savings, income, ls, rows, id, confirm, confirmed) ==
    LET items == filterOutId(income, id)
        s == saveToLocalStorage(ls, spending, savings, items)
    IN  IF confirm /\ ~confirmed
        THEN ItemsResult(income, ls, rows, Undefined)
        ELSE IF Is(s.ret, "throw")
        THEN ItemsResult(items, s.ls, rows, s.ret)
        ELSE ItemsResult(items, s.ls, refreshTable(items), Undefined)

(* Inputs of the main script *)

MaxItems == 1       \* items of a kind

SpendingForms == {<<Str("Groceries"), Str("150"), Str("Food")>>}
IncomeForms == {<<Str("Salary"), Str("1000"), Str("Job")>>}

(* Operations of the main script *)

AddSpendingItem ==
    \E form \in SpendingForms :
        LET r == addSpendingItem(spendingItems, savingsGoals, incomeItems, localStorage,
                                 spendingRows, form[1], form[2], form[3])
        IN  /\ Idle
            /\ Len(spendingItems) < MaxItems
            /\ call' = <<"addSpendingItem", form[1], form[2], form[3]>>
            /\ ret' = r.ret
            /\ spendingItems' = r.items
            /\ localStorage' = r.ls
            /\ spendingRows' = r.rows
            /\ prev' = localStorage
            /\ UNCHANGED <<incomeItems, savingsGoals, incomeRows>>
            /\ UNCHANGED <<goalsVars, chartVars, adapterVars, formVars, portfolioVars, searchVars>>
            /\ UNCHANGED <<now, quotaExceeded, lastSet, coll, added>>

DeleteSpendingItem ==
    \E id \in GoalIdArgs, confirm \in BOOLEAN, confirmed \in BOOLEAN :
        LET r == deleteSpendingItem(spendingItems, savingsGoals, incomeItems, localStorage,
                                    spendingRows, id, confirm, confirmed)
        IN  /\ Idle
            /\ call' = <<"deleteSpendingItem", id, confirm, confirmed>>
            /\ ret' = r.ret
            /\ spendingItems' = r.items
            /\ localStorage' = r.ls
            /\ spendingRows' = r.rows
            /\ prev' = localStorage
            /\ UNCHANGED <<incomeItems, savingsGoals, incomeRows>>
            /\ UNCHANGED <<goalsVars, chartVars, adapterVars, formVars, portfolioVars, searchVars>>
            /\ UNCHANGED <<now, quotaExceeded, lastSet, coll, added>>

AddIncomeItem ==
    \E form \in IncomeForms :
        LET r == addIncomeItem(spendingItems, savingsGoals, incomeItems, localStorage,
                               incomeRows, form[1], form[2], form[3])
        IN  /\ Idle
            /\ Len(incomeItems) < MaxItems
            /\ call' = <<"addIncomeItem", form[1], form[2], form[3]>>
            /\ ret' = r.ret
            /\ incomeItems' = r.items
            /\ localStorage' = r.ls
            /\ incomeRows' = r.rows
            /\ prev' = localStorage
            /\ UNCHANGED <<spendingItems, savingsGoals, spendingRows>>
            /\ UNCHANGED <<goalsVars, chartVars, adapterVars, formVars, portfolioVars, searchVars>>
            /\ UNCHANGED <<now, quotaExceeded, lastSet, coll, added>>

DeleteIncomeItem ==
    \E id \in GoalIdArgs, confirm \in BOOLEAN, confirmed \in BOOLEAN :
        LET r == deleteIncomeItem(spendingItems, savingsGoals, incomeItems, localStorage,
                                  incomeRows, id, confirm, confirmed)
        IN  /\ Idle
            /\ call' = <<"deleteIncomeItem", id, confirm, confirmed>>
            /\ ret' = r.ret
            /\ incomeItems' = r.items
            /\ localStorage' = r.ls
            /\ incomeRows' = r.rows
            /\ prev' = localStorage
            /\ UNCHANGED <<spendingItems, savingsGoals, spendingRows>>
            /\ UNCHANGED <<goalsVars, chartVars, adapterVars, formVars, portfolioVars, searchVars>>
            /\ UNCHANGED <<now, quotaExceeded, lastSet, coll, added>>

\* The main script and the goals script, both loaded on an empty storage: the
\* items of the one and the goals of the other, all within one millisecond.
BudgetNext ==
    \/ Return
    \/ AddGoal
    \/ UpdateGoal
    \/ DeleteGoal
    \/ QuickAddProgress
    \/ AddSpendingItem
    \/ DeleteSpendingItem
    \/ AddIncomeItem
    \/ DeleteIncomeItem

SpecBudget == InitGoals /\ [][BudgetNext]_vars

----------------------------------------------------------------------------
(* Numbers of the chart: fractions, Infinity, -Infinity and NaN *)

RECURSIVE GCD(_, _)
GCD(a, b) == IF b = 0 THEN a ELSE GCD(b, a % b)

Abs(n) == IF n < 0 THEN 0 - n ELSE n
Sign(n) == IF n < 0 THEN 0 - 1 ELSE 1

\* The number n / d in lowest terms, d # 0.
Rat(n, d) ==
    LET g == GCD(Abs(n), Abs(d))
    IN  [n |-> Sign(d) * (n \div g), d |-> Abs(d) \div g]

Int2Rat(i) == [n |-> i, d |-> 1]
Infinity(s) == [inf |-> s]

\* Number.isFinite
isFinite(a) == DOMAIN a = {"n", "d"}

\* a / b: a finite number divided by 0 is Infinity or -Infinity, 0 / 0 is NaN.
Divide(a, b) ==
    CASE Is(a, "nan") \/ Is(b, "nan") -> NaN
      [] isFinite(a) /\ isFinite(b) ->
            IF b.n = 0
            THEN IF a.n = 0 THEN NaN ELSE Infinity(Sign(a.n))
            ELSE Rat(a.n * b.d, a.d * b.n)
      [] isFinite(a) -> Int2Rat(0)
      [] isFinite(b) -> Infinity(a.inf * Sign(b.n))
      [] OTHER -> NaN

\* a * b: Infinity * 0 is NaN.
Times(a, b) ==
    CASE Is(a, "nan") \/ Is(b, "nan") -> NaN
      [] isFinite(a) /\ isFinite(b) -> Rat(a.n * b.n, a.d * b.d)
      [] isFinite(a) -> IF a.n = 0 THEN NaN ELSE Infinity(Sign(a.n) * b.inf)
      [] isFinite(b) -> IF b.n = 0 THEN NaN ELSE Infinity(a.inf * Sign(b.n))
      [] OTHER -> Infinity(a.inf * b.inf)

\* a + b: Infinity - Infinity is NaN.
Add(a, b) ==
    CASE Is(a, "nan") \/ Is(b, "nan") -> NaN
      [] isFinite(a) /\ isFinite(b) -> Rat(a.n * b.d + b.n * a.d, a.d * b.d)
      [] isFinite(a) -> b
      [] isFinite(b) -> a
      [] OTHER -> IF a.inf = b.inf THEN a ELSE NaN

Negate(a) ==
    CASE Is(a, "nan") -> NaN
      [] isFinite(a) -> [n |-> 0 - a.n, d |-> a.d]
      [] OTHER -> Infinity(0 - a.inf)

\* a - b
Minus(a, b) == Add(a, Negate(b))

\* a < b: false when either is NaN.
LessThan(a, b) ==
    CASE Is(a, "nan") \/ Is(b, "nan") -> FALSE
      [] isFinite(a) /\ isFinite(b) -> a.n * b.d < b.n * a.d
      [] isFinite(a) -> b.inf = 1
      [] isFinite(b) -> a.inf = 0 - 1
      [] OTHER -> a.inf < b.inf

----------------------------------------------------------------------------
(* chart.js (createStockChart, addChartHover) and the chart of the stock page
   (displayStockChart, addChartHoverInteraction) *)

\* array.reverse()
Reverse(s) == [i \in 1..Len(s) |-> s[Len(s) + 1 - i]]

RECURSIVE MathMinOf(_)
\* Math.min(...prices): Infinity for no argument
MathMinOf(s) ==
    IF s = <<>> THEN Infinity(1)
    ELSE LET m == MathMinOf(Tail(s)) IN IF LessThan(Head(s), m) THEN Head(s) ELSE m

RECURSIVE MathMaxOf(_)
\* Math.max(...prices): -Infinity for no argument
MathMaxOf(s) ==
    IF s = <<>> THEN Infinity(0 - 1)
    ELSE LET m == MathMaxOf(Tail(s)) IN IF LessThan(m, Head(s)) THEN Head(s) ELSE m

\* The date of the k-th day of the series, as the time series carries it.
DateOf(k) == IF k < 10 THEN "2024-01-0" \o ToString(k) ELSE "2024-01-" \o ToString(k)

\* new Date(date).toLocaleDateString('en-US', { month: 'short', day: 'numeric' })
toLocaleDateString(date) ==
    "Jan " \o ToString(CHOOSE k \in 1..31 : DateOf(k) = date)

\* price.toFixed(2), for whole prices
toFixed2(price) == ToString(price.n) \o ".00"

\* The two renderers: their padding, the radius of their hover test, whether they
\* guard priceRange against 0 and whether they fill the area under the line.
Renderers ==
    [createStockChart |-> [padding |-> 50, radius |-> 20, guarded |-> FALSE, area |-> FALSE,
                           copies |-> FALSE],
     displayStockChart |-> [padding |-> 60, radius |-> 30, guarded |-> TRUE, area |-> TRUE,
                            copies |-> TRUE]]

canvasWidth == 800
canvasHeight == 400

\* const x = padding + (chartWidth / (prices.length - 1)) * index, index from 0
pointX(padding, chartWidth, length, index) ==
    Add(Int2Rat(padding),
        Times(Divide(Int2Rat(chartWidth), Int2Rat(length - 1)), Int2Rat(index)))

\* pointY with the price axis pointing down: not the program's.
pointY_downwards(padding, chartHeight, price, minPrice, priceRange) ==
    Add(Int2Rat(padding),
        Times(Divide(Minus(price, minPrice), priceRange), Int2Rat(chartHeight)))

\* const y = padding + chartHeight - ((price - minPrice) / priceRange) * chartHeight
pointY(padding, chartHeight, price, minPrice, priceRange) ==
    Minus(Add(Int2Rat(padding), Int2Rat(chartHeight)),
          Times(Divide(Minus(price, minPrice), priceRange), Int2Rat(chartHeight)))

\* The container showing "No data available": no canvas, no listener.
NoChart(renderer) ==
    [renderer |-> renderer, canvas |-> FALSE, padding |-> Renderers[renderer].padding,
     prices |-> <<>>, dates |-> <<>>, minPrice |-> NaN, priceRange |-> NaN,
     points |-> <<>>, labels |-> <<>>, area |-> <<>>]

\* What a renderer draws for the time series data, newest day first: the closing
\* prices and dates oldest first, the points of the line, the labels of the
\* x axis (every 5th date and the last) and the outline of the filled area.
drawChart(renderer, data) ==
    LET r == Renderers[renderer]
        padding == r.padding
        chartWidth == canvasWidth - padding * 2
        chartHeight == canvasHeight - padding * 2
        reversedData == Reverse(data)
        prices == [i \in 1..Len(data) |-> Int2Rat(reversedData[i].close)]
        dates == [i \in 1..Len(data) |-> toLocaleDateString(reversedData[i].date)]
        minPrice == MathMinOf(prices)
        maxPrice == MathMaxOf(prices)
        range == Minus(maxPrice, minPrice)
        priceRange == IF r.guarded /\ range = Int2Rat(0) THEN Int2Rat(1) ELSE range
        points == [i \in 1..Len(prices) |->
                    [x |-> pointX(padding, chartWidth, Len(prices), i - 1),
                     y |-> pointY(padding, chartHeight, prices[i], minPrice, priceRange)]]
        labelled == {i \in 1..Len(dates) : (i - 1) % 5 = 0 \/ i = Len(dates)}
        labels == [i \in labelled |->
                    [date |-> dates[i],
                     x |-> pointX(padding, chartWidth, Len(prices), i - 1)]]
        bottom == Int2Rat(canvasHeight - padding)
        area == IF r.area
                THEN <<[x |-> points[1].x, y |-> bottom]>> \o points
                        \o <<[x |-> Int2Rat(padding + chartWidth), y |-> bottom]>>
                ELSE <<>>
    IN  IF data = <<>>
        THEN NoChart(renderer)
        ELSE [renderer |-> renderer, canvas |-> TRUE, padding |-> padding,
              prices |-> prices, dates |-> dates,
              minPrice |-> minPrice, priceRange |-> priceRange,
              points |-> points, labels |-> labels, area |-> area]

\* The array data after a renderer was given it: data.reverse() reverses the
\* array itself, [...timeSeries].reverse() a copy of it.
arrayAfter(renderer, data) ==
    IF data = <<>> \/ Renderers[renderer].copies THEN data ELSE Reverse(data)

\* (x - pointX)^2 + (y - pointY)^2, the square of the distance the handlers compute
distanceSquared(x, y, point) ==
    Add(Times(Minus(x, point.x), Minus(x, point.x)),
        Times(Minus(y, point.y), Minus(y, point.y)))

RECURSIVE findClosest_firstInRange(_, _, _, _, _, _, _)
\* The loop taking the first point within the radius: not the program's.
findClosest_firstInRange(points, x, y, radius, index, closestIndex, closestSquared) ==
    IF index > Len(points)
    THEN closestIndex
    ELSE IF closestIndex = 0
            /\ LessThan(distanceSquared(x, y, points[index]), Int2Rat(radius * radius))
         THEN index
         ELSE findClosest_firstInRange(points, x, y, radius, index + 1,
                                       closestIndex, closestSquared)

RECURSIVE findClosest(_, _, _, _, _, _, _)
\* The loop of the mousemove handler from the point at index on: a point becomes
\* the closest when its distance is below the radius and below that of the
\* closest so far. Index 0 stands for -1.
findClosest(points, x, y, radius, index, closestIndex, closestSquared) ==
    IF index > Len(points)
    THEN closestIndex
    ELSE LET squared == distanceSquared(x, y, points[index])
         IN  IF LessThan(squared, Int2Rat(radius * radius)) /\ LessThan(squared, closestSquared)
             THEN findClosest(points, x, y, radius, index + 1, index, squared)
             ELSE findClosest(points, x, y, radius, index + 1, closestIndex, closestSquared)

\* The mousemove handler: e is the pointer's offset in the canvas element
\* (clientX - rect.left, clientY - rect.top), rect the element's size.
\* addChartHover scales y by scaleX, addChartHoverInteraction by scaleY. The
\* latter, once it has set the tooltip, calls displayStockChart(timeSeries,
\* symbol) with names that are not in its scope.
mousemove(c, tip, e, rect) ==
    LET scaleX == Divide(Int2Rat(canvasWidth), Int2Rat(rect.width))
        scaleY == Divide(Int2Rat(canvasHeight), Int2Rat(rect.height))
        x == Times(Int2Rat(e.x), scaleX)
        y == Times(Int2Rat(e.y), IF c.renderer = "createStockChart" THEN scaleX ELSE scaleY)
        closestIndex == findClosest(c.points, x, y, Renderers[c.renderer].radius,
                                    1, 0, Infinity(1))
    IN  IF closestIndex # 0
        THEN [tooltip |-> [display |-> "block",
                           date |-> c.dates[closestIndex],
                           price |-> toFixed2(c.prices[closestIndex]),
                           left |-> e.x + 10,
                           top |-> e.y - (IF c.renderer = "createStockChart" THEN 40 ELSE 50)],
              ret |-> IF c.renderer = "createStockChart"
                      THEN Undefined ELSE Throw("ReferenceError")]
        ELSE [tooltip |-> [tip EXCEPT !.display = "none"], ret |-> Undefined]

\* The mouseleave handler
mouseleave(tip) == [tip EXCEPT !.display = "none"]

(* Inputs of the chart *)

MaxPoints == 3      \* days in the short time series

ClosePrices == {150, 151, 153}

\* The time series of the closing prices closes, given oldest first: newest day
\* first, as the time series adapter returns it.
SeriesOf(closes) ==
    Reverse([i \in 1..Len(closes) |-> [date |-> DateOf(i), close |-> closes[i]]])

\* Every series of up to MaxPoints days, and three weeks of rising prices.
SeriesArgs ==
    {SeriesOf(closes) : closes \in UNION {[1..n -> ClosePrices] : n \in 0..MaxPoints}}
        \cup {SeriesOf([i \in 1..21 |-> 100 + 2 * i])}

\* Pointer offsets in the canvas element, and the sizes the element can have.
OffsetArgs ==
    {[x |-> 50, y |-> 350], [x |-> 67, y |-> 343], [x |-> 68, y |-> 343],
     [x |-> 78, y |-> 333], [x |-> 400, y |-> 200], [x |-> 750, y |-> 50],
     [x |-> 135, y |-> 685]}
RectArgs == {[width |-> 800, height |-> 400], [width |-> 400, height |-> 200],
             [width |-> 1600, height |-> 800]}

(* Operations of the chart *)

\* loadStockData up to its rendering: the chart container shows the loading
\* indicator in place of what it held and the page obtains a time series,
\* newest day first.
LoadSeries ==
    \E data \in SeriesArgs :
        /\ Idle
        /\ series' = data
        /\ chart' = Null
        /\ tooltip' = NewTooltip
        /\ UNCHANGED <<goalsVars, adapterVars, mainVars, formVars, portfolioVars, searchVars>>
        /\ UNCHANGED <<now, localStorage, quotaExceeded, prev, call, ret, lastSet, coll, added>>

CreateStockChart ==
    /\ Idle
    /\ call' = <<"createStockChart", series>>
    /\ ret' = Undefined
    /\ chart' = drawChart("createStockChart", series)
    /\ tooltip' = NewTooltip
    /\ series' = arrayAfter("createStockChart", series)
    /\ UNCHANGED <<goalsVars, adapterVars, mainVars, formVars, portfolioVars, searchVars>>
    /\ UNCHANGED <<now, localStorage, quotaExceeded, prev, lastSet, coll, added>>

DisplayStockChart ==
    /\ Idle
    /\ call' = <<"displayStockChart", series>>
    /\ ret' = Undefined
    /\ chart' = drawChart("displayStockChart", series)
    /\ tooltip' = NewTooltip
    /\ series' = arrayAfter("displayStockChart", series)
    /\ UNCHANGED <<goalsVars, adapterVars, mainVars, formVars, portfolioVars, searchVars>>
    /\ UNCHANGED <<now, localStorage, quotaExceeded, prev, lastSet, coll, added>>

MouseMove ==
    \E e \in OffsetArgs, rect \in RectArgs :
        LET r == mousemove(chart, tooltip, e, rect)
        IN  /\ Idle
            /\ chart # Null
            /\ chart.canvas
            /\ e.x <= rect.width /\ e.y <= rect.height
            /\ call' = <<"mousemove", e, rect>>
            /\ ret' = r.ret
            /\ tooltip' = r.tooltip
            /\ UNCHANGED <<chart, series, goalsVars, adapterVars, mainVars, formVars, portfolioVars, searchVars>>
            /\ UNCHANGED <<now, localStorage, quotaExceeded, prev, lastSet, coll, added>>

MouseLeave ==
    /\ Idle
    /\ chart # Null
    /\ chart.canvas
    /\ call' = <<"mouseleave">>
    /\ ret' = Undefined
    /\ tooltip' = mouseleave(tooltip)
    /\ UNCHANGED <<chart, series, goalsVars, adapterVars, mainVars, formVars, portfolioVars, searchVars>>
    /\ UNCHANGED <<now, localStorage, quotaExceeded, prev, lastSet, coll, added>>

\* A page that renders charts and moves the pointer over them.
InitChart ==
    /\ now = 0
    /\ localStorage = EmptyStorage
    /\ quotaExceeded = FALSE
    /\ prev = EmptyStorage
    /\ call = <<"idle">>
    /\ ret = Undefined
    /\ lastSet = [ck \in Coords |-> Null]
    /\ coll = "PORTFOLIO"
    /\ added = <<>>
    /\ InitPage

ChartNext ==
    \/ Return
    \/ LoadSeries
    \/ CreateStockChart
    \/ DisplayStockChart
    \/ MouseMove
    \/ MouseLeave

SpecChart == InitChart /\ [][ChartNext]_vars

----------------------------------------------------------------------------
(* The market-data adapters of the main script (getStockQuote,
   getExchangeRates) and of news.js (fetchNews) *)

HOUR == 60 * 60 * 1000     \* milliseconds

\* isCacheValid that takes every stored entry for valid: not the program's.
isCacheValid_anyAge(ls, cacheKey, expiryHours) ==
    Result(ls, Bool(Truthy(ls[cacheKey])))

\* isCacheValid(cacheKey, expiryHours)
isCacheValid(ls, cacheKey, expiryHours) ==
    LET cached == ls[cacheKey]
        data == JSONparse(cached)
        timestamp == GetProp(data, "timestamp")
    IN  IF ~Truthy(cached) THEN Result(ls, Bool(FALSE))
        ELSE IF JSONparseThrows(cached) THEN Result(ls, Throw("SyntaxError"))
        ELSE IF Is(data, "null") THEN Result(ls, Throw("TypeError"))
        ELSE Result(ls, Bool(Is(timestamp, "num")
                             /\ now - timestamp.num < expiryHours * HOUR))

\* getFromCache(cacheKey)
getFromCache(ls, cacheKey) ==
    LET cached == ls[cacheKey]
        data == JSONparse(cached)
    IN  IF ~Truthy(cached) THEN Result(ls, Null)
        ELSE IF JSONparseThrows(cached) THEN Result(ls, Throw("SyntaxError"))
        ELSE IF Is(data, "null") THEN Result(ls, Throw("TypeError"))
        ELSE Result(ls, GetProp(data, "value"))

\* saveToCache(cacheKey, value)
saveToCache(ls, cacheKey, value) ==
    setItem(ls, cacheKey, JSONstringify(Obj([timestamp |-> Num(now), value |-> value])))

\* What a call does before its request: it returns (done) or awaits a response.
Returned(r) == [done |-> TRUE, ls |-> r.ls, ret |-> r.ret]
Awaiting(ls) == [done |-> FALSE, ls |-> ls, ret |-> Undefined]

\* The cache check the adapters of the main script begin with.
checkCache(ls, cacheKey, expiryHours) ==
    LET valid == isCacheValid(ls, cacheKey, expiryHours)
    IN  IF Is(valid.ret, "throw") THEN Returned(valid)
        ELSE IF valid.ret = Bool(TRUE) THEN Returned(getFromCache(ls, cacheKey))
        ELSE Awaiting(ls)

\* await fetch(url); await response.json(): the response is the rejection of
\* fetch or the text of the body.
responseJson(response) ==
    IF Is(response, "throw") THEN response
    ELSE IF JSONparseThrows(response) \/ Is(response, "null") THEN Throw("SyntaxError")
    ELSE JSONparse(response)

\* getStockQuote(symbol) up to its request
getStockQuote(ls, symbol) == checkCache(ls, "stock_quote_" \o symbol, 1)

\* getStockQuote(symbol) from the response on: an exception is logged and thrown
\* again.
getStockQuoteResponse(ls, symbol, response) ==
    LET data == responseJson(response)
        quote == GetProp(data, "Global Quote")
        result == Obj([symbol |-> GetProp(quote, "01. symbol"),
                       price |-> parseFloat(GetProp(quote, "05. price")),
                       change |-> parseFloat(GetProp(quote, "09. change")),
                       changePercent |-> GetProp(quote, "10. change percent"),
                       volume |-> parseInt(GetProp(quote, "06. volume")),
                       latestTradingDay |-> GetProp(quote, "07. latest trading day")])
        saved == saveToCache(ls, "stock_quote_" \o symbol, result)
    IN  IF Is(data, "throw") THEN Result(ls, data)
        ELSE IF Is(data, "null") THEN Result(ls, Throw("TypeError"))
        ELSE IF Truthy(GetProp(data, "Error Message")) \/ Truthy(GetProp(data, "Note"))
        THEN Result(ls, Throw("Error: " \o Or(GetProp(data, "Error Message"),
                                              Str("API rate limit reached")).str))
        ELSE IF ~Is(quote, "obj") THEN Result(ls, Throw("TypeError"))
        ELSE IF Is(saved.ret, "throw") THEN Result(ls, saved.ret)
        ELSE Result(saved.ls, result)

\* The day of January 2024 a date of the daily time series names.
DayOf(date) == CHOOSE k \in 1..31 : DateOf(k) = date

RECURSIVE ObjectEntries(_)
\* Object.entries(timeSeries): the entries in the order of the response, which
\* lists the days newest first.
ObjectEntries(o) ==
    IF DOMAIN o.obj = {}
    THEN <<>>
    ELSE LET date == CHOOSE d \in DOMAIN o.obj : \A e \in DOMAIN o.obj : DayOf(e) <= DayOf(d)
         IN  <<<<date, o.obj[date]>>>>
                \o ObjectEntries(Obj([d \in DOMAIN o.obj \ {date} |-> o.obj[d]]))

\* array.slice(0, end)
Slice0(s, end) == SubSeq(s, 1, IF end < Len(s) THEN end ELSE Len(s))

\* getStockTimeSeries(symbol, days) up to its request
getStockTimeSeries(ls, symbol, days) == checkCache(ls, "stock_timeseries_" \o symbol, 24)

\* getStockTimeSeries(symbol, days) from the response on
getStockTimeSeriesResponse(ls, symbol, days, response) ==
    LET data == responseJson(response)
        timeSeries == GetProp(data, "Time Series (Daily)")
        entries == Slice0(ObjectEntries(timeSeries), days)
        result == Arr([i \in 1..Len(entries) |->
                        Obj([date |-> Str(entries[i][1]),
                             open |-> parseFloat(GetProp(entries[i][2], "1. open")),
                             high |-> parseFloat(GetProp(entries[i][2], "2. high")),
                             low |-> parseFloat(GetProp(entries[i][2], "3. low")),
                             close |-> parseFloat(GetProp(entries[i][2], "4. close")),
                             volume |-> parseInt(GetProp(entries[i][2], "5. volume"))])])
        saved == saveToCache(ls, "stock_timeseries_" \o symbol, result)
    IN  IF Is(data, "throw") THEN Result(ls, data)
        ELSE IF Is(data, "null") THEN Result(ls, Throw("TypeError"))
        ELSE IF Truthy(GetProp(data, "Error Message")) \/ Truthy(GetProp(data, "Note"))
        THEN Result(ls, Throw("Error: " \o Or(GetProp(data, "Error Message"),
                                              Str("API rate limit reached")).str))
        ELSE IF ~Is(timeSeries, "obj") THEN Result(ls, Throw("TypeError"))
        ELSE IF Is(saved.ret, "throw") THEN Result(ls, saved.ret)
        ELSE Result(saved.ls, result)

\* The currencies getExchangeRates extracts.
currencies == {"USD", "EUR", "GBP", "JPY", "CAD", "AUD"}

\* getExchangeRates(baseCurrency) up to its request
getExchangeRates(ls, baseCurrency) == checkCache(ls, "exchange_rates_" \o baseCurrency, 24)

\* getExchangeRates(baseCurrency) from the response on
getExchangeRatesResponse(ls, baseCurrency, response) ==
    LET data == responseJson(response)
        rates == GetProp(data, "rates")
        kept == {c \in currencies : Truthy(GetProp(rates, c))}
        result == Obj([base |-> GetProp(data, "base"),
                       date |-> GetProp(data, "date"),
                       rates |-> Obj([c \in kept |-> GetProp(rates, c)])])
        saved == saveToCache(ls, "exchange_rates_" \o baseCurrency, result)
    IN  IF Is(data, "throw") THEN Result(ls, data)
        ELSE IF Is(data, "null") \/ ~Is(rates, "obj") THEN Result(ls, Throw("TypeError"))
        ELSE IF Is(saved.ret, "throw") THEN Result(ls, saved.ret)
        ELSE Result(saved.ls, result)

CACHE_DURATION == 24 * HOUR

\* fetchNews() of news.js up to its request
fetchNews(ls) ==
    LET text == ls["cachedNews"]
        cached == JSONparse(text)
        timestamp == GetProp(cached, "timestamp")
    IN  IF JSONparseThrows(text) THEN Returned(Result(ls, Throw("SyntaxError")))
        ELSE IF Truthy(cached) /\ Is(timestamp, "num")
                /\ now - timestamp.num < CACHE_DURATION
        THEN Returned(Result(ls, GetProp(cached, "data")))
        ELSE Awaiting(ls)

\* fetchNews() from the response on, startedAt being the Date.now() it read
\* before its request: an exception is logged and [] is returned.
fetchNewsResponse(ls, startedAt, response) ==
    LET data == responseJson(response)
        saved == setItem(ls, "cachedNews",
                         JSONstringify(Obj([timestamp |-> Num(startedAt),
                                            data |-> GetProp(data, "articles")])))
    IN  IF Is(data, "throw") \/ Is(data, "null") THEN Result(ls, Arr(<<>>))
        ELSE IF ~StrictEquals(GetProp(data, "status"), Str("ok")) THEN Result(ls, Arr(<<>>))
        ELSE IF Is(saved.ret, "throw") THEN Result(ls, Arr(<<>>))
        ELSE Result(saved.ls, GetProp(data, "articles"))

(* Inputs of the adapters *)

MaxHours == 2       \* the adapters' clock runs over 0..MaxHours hours

\* The clock values at which the adapters are observed: the full hours and the
\* millisecond before each.
AdapterClock == {h * HOUR - d : h \in 0..MaxHours, d \in {0, 1}} \cap Nat

\* The days of the daily time series the upstream answers with.
ResponseDays == MaxPoints

\* The values the upstream gives for day k.
DailyValues(k) ==
    Obj(("1. open" :> Str("150")) @@ ("2. high" :> Str("250")) @@ ("3. low" :> Str("150"))
            @@ ("4. close" :> (IF k % 2 = 1 THEN Str("150") ELSE Str("250")))
            @@ ("5. volume" :> Str("1000")))

\* The numbers of days time series are asked for.
DaysArgs == {1, MaxPoints}

NetworkFailure == Throw("TypeError: Failed to fetch")
Unparsable == Str("<html>Bad Gateway</html>")

\* Responses that report a failure, by adapter.
FailureResponses ==
    [getStockQuote |->
        {NetworkFailure, Unparsable,
         [json |-> Obj(("Error Message" :> Str("Invalid API call")))],
         [json |-> Obj(("Note" :> Str("Thank you for using Alpha Vantage")))]},
     getStockTimeSeries |->
        {NetworkFailure,
         [json |-> Obj(("Note" :> Str("Thank you for using Alpha Vantage")))]},
     getExchangeRates |->
        {NetworkFailure, Unparsable,
         [json |-> Obj((("result" :> Str("error")) @@ ("error-type" :> Str("unsupported-code"))))]},
     fetchNews |->
        {NetworkFailure, Unparsable,
         [json |-> Obj([status |-> Str("error"), message |-> Str("apiKeyInvalid")])]}]

\* Responses that carry a result, by adapter.
SuccessResponses ==
    [getStockQuote |->
        {[json |-> Obj(("Global Quote" :>
            Obj(("01. symbol" :> Str("AAPL")) @@ ("05. price" :> Str("150"))
                @@ ("09. change" :> Str("5")) @@ ("10. change percent" :> Str("3.4483%"))
                @@ ("06. volume" :> Str("1000"))
                @@ ("07. latest trading day" :> Str("2024-01-15")))))],
         [json |-> Obj(("Global Quote" :> EmptyObj))]},
     getStockTimeSeries |->
        {[json |-> Obj(("Time Series (Daily)" :>
            Obj([d \in {DateOf(k) : k \in 1..ResponseDays} |-> DailyValues(DayOf(d))])))]},
     getExchangeRates |->
        {[json |-> Obj([base |-> Str("USD"), date |-> Str("2024-01-15"),
                        rates |-> Obj([USD |-> Num(1), JPY |-> Num(150), CHF |-> Num(1)])])]},
     fetchNews |->
        {[json |-> Obj([status |-> Str("ok"),
                        articles |-> Arr(<<Obj([title |-> Str("Markets rally")])>>)])]}]

Responses(adapter) == FailureResponses[adapter] \cup SuccessResponses[adapter]

(* Operations of the adapters *)

\* The clock advances, also while a call awaits its response.
AdapterTick ==
    /\ Idle \/ call[1] = "await"
    /\ \E t \in AdapterClock :
        /\ t > now
        /\ \A u \in AdapterClock : u > now => t <= u
        /\ now' = t
    /\ UNCHANGED <<goalsVars, chartVars, adapterVars, mainVars, formVars, portfolioVars, searchVars>>
    /\ UNCHANGED <<localStorage, quotaExceeded, prev, call, ret, lastSet, coll, added>>

\* A call of an adapter up to its return or its request.
BeginCall(adapter, arg, r) ==
    /\ Idle
    /\ prev' = localStorage
    /\ started' = [at |-> now]
    /\ localStorage' = r.ls
    /\ IF r.done
       THEN call' = <<adapter, arg, Null>> /\ ret' = r.ret /\ fetches' = 0
       ELSE call' = <<"await", adapter, arg>> /\ ret' = Undefined /\ fetches' = 1
    /\ UNCHANGED <<goalsVars, chartVars, mainVars, formVars, portfolioVars, searchVars>>
    /\ UNCHANGED <<now, quotaExceeded, lastSet, coll, added>>

GetStockQuote == BeginCall("getStockQuote", "AAPL", getStockQuote(localStorage, "AAPL"))

GetExchangeRates == BeginCall("getExchangeRates", "USD", getExchangeRates(localStorage, "USD"))

FetchNews == BeginCall("fetchNews", "", fetchNews(localStorage))

GetStockTimeSeries ==
    \E days \in DaysArgs :
        BeginCall("getStockTimeSeries", [symbol |-> "AAPL", days |-> days],
                  getStockTimeSeries(localStorage, "AAPL", days))

\* The response to the awaited request arrives and the call completes.
Respond ==
    /\ call[1] = "await"
    /\ \E response \in Responses(call[2]) :
        LET r == CASE call[2] = "getStockQuote" ->
                        getStockQuoteResponse(localStorage, call[3], response)
                   [] call[2] = "getStockTimeSeries" ->
                        getStockTimeSeriesResponse(localStorage, call[3].symbol,
                                                   call[3].days, response)
                   [] call[2] = "getExchangeRates" ->
                        getExchangeRatesResponse(localStorage, call[3], response)
                   [] call[2] = "fetchNews" ->
                        fetchNewsResponse(localStorage, started.at, response)
        IN  /\ call' = <<call[2], call[3], response>>
            /\ ret' = r.ret
            /\ localStorage' = r.ls
    /\ UNCHANGED <<goalsVars, chartVars, adapterVars, mainVars, formVars, portfolioVars, searchVars>>
    /\ UNCHANGED <<now, quotaExceeded, prev, lastSet, coll, added>>

\* The adapters called one after the other on an empty storage, under a clock
\* that runs for hours; every storage write is accepted.
InitAdapters ==
    /\ now = 0
    /\ localStorage = EmptyStorage
    /\ quotaExceeded = FALSE
    /\ prev = EmptyStorage
    /\ call = <<"idle">>
    /\ ret = Undefined
    /\ lastSet = [ck \in Coords |-> Null]
    /\ coll = "PORTFOLIO"
    /\ added = <<>>
    /\ InitPage

AdaptersNext ==
    \/ Return
    \/ AdapterTick
    \/ GetStockQuote
    \/ GetExchangeRates
    \/ FetchNews
    \/ Respond

SpecAdapters == InitAdapters /\ [][AdaptersNext]_vars

\* Calls for the daily time series of one symbol, with varying numbers of days.
TimeSeriesNext ==
    \/ Return
    \/ AdapterTick
    \/ GetStockTimeSeries
    \/ Respond

SpecTimeSeries == InitAdapters /\ [][TimeSeriesNext]_vars

----------------------------------------------------------------------------
(* The portfolio page: the holdings table, its summary and the add-holding form *)

\* a * b, a - b and a >= b on numbers
Multiply(a, b) == IF Is(a, "num") /\ Is(b, "num") THEN Num(a.num * b.num) ELSE NaN
Subtract(a, b) == IF Is(a, "num") /\ Is(b, "num") THEN Num(a.num - b.num) ELSE NaN
GreaterOrEqual(a, b) == Is(a, "num") /\ Is(b, "num") /\ a.num >= b.num

\* formatCurrency(amount): `$${parseFloat(amount).toFixed(2)}`, of a whole number
\* or NaN
formatCurrency(amount) ==
    IF Is(parseFloat(amount), "num")
    THEN "$" \o ToString(parseFloat(amount).num) \o ".00"
    ELSE "$NaN"

\* ((n / d) * 100).toFixed(2) for whole numbers n and d: the sign, then the
\* magnitude rounded to hundredths, a tie going up.
percentToFixed2(n, d) ==
    IF d = 0
    THEN IF n = 0 THEN "NaN" ELSE IF n > 0 THEN "Infinity" ELSE "-Infinity"
    ELSE LET hundredths == (20000 * Abs(n) + Abs(d)) \div (2 * Abs(d))
         IN  (IF n # 0 /\ (n < 0) # (d < 0) THEN "-" ELSE "")
                \o ToString(hundredths \div 100) \o "."
                \o (IF hundredths % 100 < 10 THEN "0" ELSE "") \o ToString(hundredths % 100)

\* `${gain >= 0 ? '+' : ''}${formatCurrency(gain)} (${percent}%)`
gainText(gain, percent) ==
    (IF GreaterOrEqual(gain, Num(0)) THEN "+" ELSE "") \o formatCurrency(gain)
        \o " (" \o percent \o "%)"

\* The row of the holdings table for a holding with its price.
holdingRow(holding) ==
    LET currentPrice == GetProp(holding, "currentPrice")
        quantity == GetProp(holding, "quantity")
        avgCost == GetProp(holding, "avgCost")
        currentValue == IF Truthy(currentPrice) THEN Multiply(quantity, currentPrice) ELSE Num(0)
        costBasis == Multiply(quantity, avgCost)
        gain == Subtract(currentValue, costBasis)
        gainPercent == IF Is(gain, "num") /\ Is(costBasis, "num")
                       THEN percentToFixed2(gain.num, costBasis.num) ELSE "NaN"
    IN  [symbol |-> GetProp(holding, "symbol"),
         quantity |-> quantity,
         avgCost |-> formatCurrency(avgCost),
         price |-> IF Truthy(currentPrice) THEN formatCurrency(currentPrice) ELSE "N/A",
         value |-> IF Truthy(currentPrice) THEN formatCurrency(currentValue) ELSE "N/A",
         gain |-> IF Truthy(currentPrice) THEN gainText(gain, gainPercent) ELSE "N/A"]

RECURSIVE summaryTotals(_)
\* The loop of updatePortfolioSummary: totalValue and totalCost over the
\* holdings that have a price.
summaryTotals(holdings) ==
    IF holdings = <<>>
    THEN [totalValue |-> Num(0), totalCost |-> Num(0)]
    ELSE LET before == summaryTotals(SubSeq(holdings, 1, Len(holdings) - 1))
             holding == holdings[Len(holdings)]
         IN  IF Truthy(GetProp(holding, "currentPrice"))
             THEN [totalValue |-> Plus(before.totalValue,
                                       Multiply(GetProp(holding, "quantity"),
                                                GetProp(holding, "currentPrice"))),
                   totalCost |-> Plus(before.totalCost,
                                      Multiply(GetProp(holding, "quantity"),
                                               GetProp(holding, "avgCost")))]
             ELSE before

\* updatePortfolioSummary with the cost of every holding in the total cost,
\* priced or not: not the program's.
updatePortfolioSummary_allCosts(holdings) ==
    LET totals == summaryTotals(holdings)
        allCost == summaryTotals([i \in 1..Len(holdings) |->
                        SetProp(holdings[i], "currentPrice", Num(1))]).totalCost
        totalGain == Subtract(totals.totalValue, allCost)
    IN  [totalValue |-> formatCurrency(totals.totalValue),
         totalCost |-> formatCurrency(allCost),
         totalGain |-> gainText(totalGain, "0")]

\* updatePortfolioSummary(holdings)
updatePortfolioSummary(holdings) ==
    LET totals == summaryTotals(holdings)
        totalGain == Subtract(totals.totalValue, totals.totalCost)
        totalGainPercent == IF GreaterThan(totals.totalCost, Num(0))
                            THEN percentToFixed2(totalGain.num, totals.totalCost.num)
                            ELSE "0"
    IN  [totalValue |-> formatCurrency(totals.totalValue),
         totalCost |-> formatCurrency(totals.totalCost),
         totalGain |-> gainText(totalGain, totalGainPercent)]

\* What the holdings table shows for no holdings, while the quotes are awaited
\* and when displaying has failed.
EmptyTable ==
    [state |-> "No holdings yet. Search for a stock to add to your portfolio.", rows |-> <<>>]
LoadingTable == [state |-> "Loading portfolio data...", rows |-> <<>>]
ErrorTable == [state |-> "Error loading portfolio data.", rows |-> <<>>]

\* The callback of holdings.map for a holding and what getQuote of its symbol
\* gave: the holding with the price of the quote, or with no price when getQuote
\* threw.
withPrice(holding, quote) ==
    IF Is(quote, "throw") \/ Is(quote, "null") \/ Is(quote, "undef")
    THEN Spread(holding, Obj([currentPrice |-> Null]))
    ELSE Spread(holding, Obj([currentPrice |-> GetProp(quote, "price"),
                              change |-> GetProp(quote, "change"),
                              changePercent |-> GetProp(quote, "changePercent")]))

\* Promise.all with the results taken in the order of completion: not the
\* program's.
promiseAll_completionOrder(refresh) ==
    [i \in 1..Len(refresh.holdings) |->
        withPrice(refresh.holdings[i], refresh.results[refresh.order[i]])]

\* await Promise.all(holdings.map(...)): the holdings with their prices, in the
\* order of the holdings.
promiseAll(refresh) ==
    [i \in 1..Len(refresh.holdings) |-> withPrice(refresh.holdings[i], refresh.results[i])]

\* The holdings of a call whose quote is awaited.
Pending(refresh) == {i \in 1..Len(refresh.holdings) : Is(refresh.results[i], "undef")}

\* displayPortfolioHoldings() from the quotes on: the rows and the summary.
showHoldings(refresh) ==
    LET holdingsWithPrices == promiseAll(refresh)
    IN  [tbody |-> [state |-> "rows",
                    rows |-> [i \in 1..Len(holdingsWithPrices) |->
                                holdingRow(holdingsWithPrices[i])]],
         summary |-> updatePortfolioSummary(holdingsWithPrices)]

\* getQuote(holding.symbol) up to its request: the cached quote or the exception
\* of the cache check, undefined standing for a request that is awaited.
startQuote(ls, holding) ==
    LET c == getStockQuote(ls, GetProp(holding, "symbol").str)
    IN  IF c.done THEN c.ret ELSE Undefined

\* displayPortfolioHoldings() up to the first response it has to wait for: the
\* table, the summary and the calls awaiting quotes after it. A call all of whose
\* quotes come from the cache shows its rows at once. A stored value that is no
\* array has no map, which the table answers with its error state.
displayPortfolioHoldings(ls, table, sum, calls) ==
    LET holdings == collLoad(ls, "PORTFOLIO")
        results == [i \in 1..Len(holdings.arr) |-> startQuote(ls, holdings.arr[i])]
        cached(i) == ~Is(results[i], "undef")
        refresh == [holdings |-> holdings.arr,
                    results |-> results,
                    order |-> SelectSeq([i \in 1..Len(holdings.arr) |-> i], cached)]
    IN  IF ~Is(holdings, "arr")
        THEN [tbody |-> ErrorTable, summary |-> sum, refreshes |-> calls, shown |-> Null]
        ELSE IF Len(holdings.arr) = 0
        THEN [tbody |-> EmptyTable, summary |-> updatePortfolioSummary(<<>>),
              refreshes |-> calls, shown |-> Null]
        ELSE IF Pending(refresh) = {}
        THEN [tbody |-> showHoldings(refresh).tbody, summary |-> showHoldings(refresh).summary,
              refreshes |-> calls, shown |-> refresh]
        ELSE [tbody |-> LoadingTable, summary |-> sum,
              refreshes |-> Append(calls, refresh), shown |-> Null]

\* new Date().toISOString().split('T')[0]
isoDate == Str("1970-01-01")

\* The submit handler of the add-holding form, the fields of the form holding
\* symbol, quantity, average cost and purchase date.
holdingFormSubmit(ls, table, sum, calls, fields, rnd) ==
    LET symbol == toUpperCase(trim(fields[1]))
        quantity == parseFloat(fields[2])
        avgCost == parseFloat(fields[3])
        purchaseDate == fields[4]
        a == collAdd(ls, "PORTFOLIO",
                     Obj([symbol |-> symbol, quantity |-> quantity, avgCost |-> avgCost,
                          purchaseDate |-> Or(purchaseDate, isoDate)]), rnd)
        d == displayPortfolioHoldings(a.ls, table, sum, calls)
    IN  IF ~Truthy(symbol) \/ ~Truthy(quantity) \/ ~Truthy(avgCost)
        THEN [ls |-> ls, ret |-> Undefined, tbody |-> table, summary |-> sum,
              refreshes |-> calls, shown |-> Null]
        ELSE IF Is(a.ret, "throw")
        THEN [ls |-> a.ls, ret |-> a.ret, tbody |-> table, summary |-> sum,
              refreshes |-> calls, shown |-> Null]
        ELSE [ls |-> a.ls, ret |-> Undefined, tbody |-> d.tbody, summary |-> d.summary,
              refreshes |-> d.refreshes, shown |-> d.shown]

(* Inputs of the portfolio page *)

MaxHoldings == 2    \* holdings in the portfolio
\* The random part of the id of a new holding, which the page never shows.
HoldingSuffixes == {"k3x"}

\* What the fields of the add-holding form can hold when it is submitted.
HoldingFields ==
    {<<Str("aapl"), Str("10"), Str("150"), Str("")>>,
     <<Str("msft"), Str("5"), Str("250"), Str("2024-01-15")>>,
     <<Str(""), Str("10"), Str("150"), Str("")>>,
     <<Str("aapl"), Str(""), Str("150"), Str("")>>,
     <<Str("aapl"), Str("10"), Str(""), Str("")>>,
     <<Str("aapl"), Str("-5"), Str("150"), Str("")>>,
     <<Str("aapl"), Str("10"), Str("-5"), Str("")>>}

\* The price the upstream quotes for a symbol.
UpstreamPrice == ("AAPL" :> Str("150")) @@ ("MSFT" :> Str("250"))

\* The responses to a quote request for a symbol: a failure, a quote without
\* fields and the quote of the symbol.
QuoteResponses(symbol) ==
    {NetworkFailure,
     [json |-> Obj(("Global Quote" :> Obj(<<>>)))],
     [json |-> Obj(("Global Quote" :>
        Obj(("01. symbol" :> Str(symbol)) @@ ("05. price" :> UpstreamPrice[symbol])
            @@ ("09. change" :> Str("5")) @@ ("10. change percent" :> Str("3.4483%"))
            @@ ("06. volume" :> Str("1000"))
            @@ ("07. latest trading day" :> Str("2024-01-15")))))]}

(* Operations of the portfolio page *)

\* The add-holding form is submitted, while at most one call of
\* displayPortfolioHoldings awaits its quotes.
HoldingFormSubmit ==
    \E fields \in HoldingFields, rnd \in HoldingSuffixes :
        \E r \in {holdingFormSubmit(localStorage, tbody, summary, refreshes, fields, rnd)} :
            /\ Idle
            /\ Len(collLoad(r.ls, "PORTFOLIO").arr) <= MaxHoldings
            /\ Len(r.refreshes) <= 1
            /\ call' = <<"holdingFormSubmit", fields, r.shown>>
            /\ ret' = r.ret
            /\ localStorage' = r.ls
            /\ tbody' = r.tbody
            /\ summary' = r.summary
            /\ refreshes' = r.refreshes
            /\ prev' = localStorage
            /\ UNCHANGED <<goalsVars, formVars, chartVars, adapterVars, mainVars, searchVars>>
            /\ UNCHANGED <<now, quotaExceeded, lastSet, coll, added>>

\* A click on the refresh button, while no call awaits its quotes.
RefreshPortfolio ==
    \E r \in {displayPortfolioHoldings(localStorage, tbody, summary, refreshes)} :
        /\ Idle
        /\ Len(r.refreshes) <= 1
        /\ call' = <<"displayPortfolioHoldings", r.shown>>
        /\ ret' = Undefined
        /\ tbody' = r.tbody
        /\ summary' = r.summary
        /\ refreshes' = r.refreshes
        /\ prev' = localStorage
        /\ UNCHANGED <<goalsVars, formVars, chartVars, adapterVars, mainVars, searchVars>>
        /\ UNCHANGED <<now, localStorage, quotaExceeded, lastSet, coll, added>>

\* The response to one of the awaited quote requests arrives; the call whose
\* last quote it is shows its rows and its summary.
QuoteResponds ==
    \E r \in 1..Len(refreshes) :
        \E i \in Pending(refreshes[r]) :
            \E response \in QuoteResponses(GetProp(refreshes[r].holdings[i], "symbol").str) :
                \E q \in {getStockQuoteResponse(
                            localStorage, GetProp(refreshes[r].holdings[i], "symbol").str,
                            response)} :
                \E settled \in {[refreshes[r] EXCEPT !.results[i] = q.ret,
                                                     !.order = Append(@, i)]} :
                    /\ Idle
                    /\ localStorage' = q.ls
                    /\ prev' = localStorage
                    /\ IF Pending(settled) = {}
                       THEN /\ refreshes' = SubSeq(refreshes, 1, r - 1)
                                                \o SubSeq(refreshes, r + 1, Len(refreshes))
                            /\ tbody' = showHoldings(settled).tbody
                            /\ summary' = showHoldings(settled).summary
                            /\ call' = <<"displayPortfolioHoldings", settled>>
                       ELSE /\ refreshes' = [refreshes EXCEPT ![r] = settled]
                            /\ UNCHANGED <<tbody, summary, call>>
                    /\ UNCHANGED <<goalsVars, formVars, chartVars, adapterVars, mainVars,
                                   searchVars>>
                    /\ UNCHANGED <<now, quotaExceeded, ret, lastSet, coll, added>>

\* The portfolio page loaded on an empty storage: initPortfolioPage has
\* displayed the empty table. Every storage write is accepted.
InitPortfolio ==
    /\ now = 0
    /\ localStorage = EmptyStorage
    /\ quotaExceeded = FALSE
    /\ prev = EmptyStorage
    /\ call = <<"idle">>
    /\ ret = Undefined
    /\ lastSet = [ck \in Coords |-> Null]
    /\ coll = "PORTFOLIO"
    /\ added = <<>>
    /\ goals = <<>>
    /\ goalsContainer = <<>>
    /\ prevGoals = <<>>
    /\ goalForm = AddMode
    /\ chart = Null
    /\ tooltip = NewTooltip
    /\ series = <<>>
    /\ incomeItems = <<>>
    /\ spendingItems = <<>>
    /\ savingsGoals = <<>>
    /\ incomeRows = <<NoItemsRow>>
    /\ spendingRows = <<NoItemsRow>>
    /\ refreshes = <<>>
    /\ tbody = EmptyTable
    /\ summary = updatePortfolioSummary(<<>>)
    /\ searchInput = NoInput
    /\ searchTimeout = Null
    /\ timers = <<>>
    /\ searchResults = NoResults
    /\ searches = <<>>
    /\ issued = <<>>
    /\ fetches = 0
    /\ started = [at |-> 0]

PortfolioNext ==
    \/ Return
    \/ HoldingFormSubmit
    \/ RefreshPortfolio
    \/ QuoteResponds

SpecPortfolio == InitPortfolio /\ [][PortfolioNext]_vars

----------------------------------------------------------------------------
(* The portfolio page: the stock search *)

DebounceDelay == 500   \* the delay of the search timer, in milliseconds

\* string.length of the texts typed into the search input
length(v) ==
    CASE v.str = "" -> 0
      [] v.str = "a" -> 1
      [] v.str \in {"aa", "ms"} -> 2

\* clearTimeout that leaves the timer set: not the program's.
clearTimeout_keeps(pending, id) == pending

\* clearTimeout(id): the timer of that id, when it is still set, is dropped.
clearTimeout(pending, id) ==
    LET others(timer) == timer.id # id.num
    IN  SelectSeq(pending, others)

\* setTimeout(callback, delay) for the callback that searches for query, under a
\* new id.
setTimeout(pending, id, query, delay) ==
    Append(pending, [id |-> id, query |-> query, due |-> now + delay])

\* The input listener of the search input, for the text of the input, with the
\* id the next timer gets.
searchInputListener(value, timeout, pending, results, id) ==
    LET query == trim(value)
        cleared == IF Truthy(timeout) THEN clearTimeout(pending, timeout) ELSE pending
    IN  IF length(query) < 2
        THEN [searchTimeout |-> timeout,
              timers |-> cleared,
              searchResults |-> [text |-> "", items |-> <<>>, display |-> "none",
                                 query |-> ""]]
        ELSE [searchTimeout |-> Num(id),
              timers |-> setTimeout(cleared, id, query, DebounceDelay),
              searchResults |-> results]

\* searchStockSymbol(keywords) up to its request
searchStockSymbol(ls, keywords) == checkCache(ls, "stock_search_" \o keywords, 168)

\* searchStockSymbol(keywords) from the response on
searchStockSymbolResponse(ls, keywords, response) ==
    LET data == responseJson(response)
        matches == Or(GetProp(data, "bestMatches"), Arr(<<>>))
        result == Arr([i \in 1..Len(matches.arr) |->
                        Obj([symbol |-> GetProp(matches.arr[i], "1. symbol"),
                             name |-> GetProp(matches.arr[i], "2. name"),
                             type |-> GetProp(matches.arr[i], "3. type"),
                             region |-> GetProp(matches.arr[i], "4. region"),
                             currency |-> GetProp(matches.arr[i], "8. currency")])])
        saved == saveToCache(ls, "stock_search_" \o keywords, result)
    IN  IF Is(data, "throw") THEN Result(ls, data)
        ELSE IF Is(data, "null") THEN Result(ls, Throw("TypeError"))
        ELSE IF Truthy(GetProp(data, "Error Message")) \/ Truthy(GetProp(data, "Note"))
        THEN Result(ls, Throw("Error: " \o Or(GetProp(data, "Error Message"),
                                              Str("API rate limit reached")).str))
        ELSE IF ~Is(matches, "arr") THEN Result(ls, Throw("TypeError"))
        ELSE IF Is(saved.ret, "throw") THEN Result(ls, saved.ret)
        ELSE Result(saved.ls, result)

\* performStockSearch(query) from the results of searchSymbol on: the message
\* or the first eight results become the content of the element, whose display
\* style is left as it is.
renderResults(element, results) ==
    IF ~Is(results, "arr")
    THEN [element EXCEPT !.text = "Search failed. Please try again.", !.items = <<>>]
    ELSE IF Len(results.arr) = 0
    THEN [element EXCEPT !.text = "No results found", !.items = <<>>]
    ELSE [element EXCEPT
            !.text = "",
            !.items = [i \in 1..Len(Slice0(results.arr, 8)) |->
                        [symbol |-> GetProp(results.arr[i], "symbol"),
                         name |-> GetProp(results.arr[i], "name"),
                         type |-> GetProp(results.arr[i], "type"),
                         region |-> GetProp(results.arr[i], "region")]]]

\* The continuation of performStockSearch that leaves the element alone once
\* another search has written to it: not the program's.
showSearchResults_unlessOverwritten(element, query, results) ==
    IF element.query # query THEN element ELSE renderResults(element, results)

\* The continuation of performStockSearch(query) after its await.
showSearchResults(element, query, results) ==
    renderResults([element EXCEPT !.query = query], results)

\* performStockSearch(query) up to the response it has to wait for: the element
\* shows that the search runs; results from the cache are shown at once.
performStockSearch(ls, element, query) ==
    LET c == searchStockSymbol(ls, query)
        searching == [text |-> "Searching...", items |-> <<>>, display |-> "block",
                      query |-> query]
    IN  IF c.done
        THEN [searchResults |-> showSearchResults(searching, query, c.ret), awaiting |-> FALSE]
        ELSE [searchResults |-> searching, awaiting |-> TRUE]

(* Inputs of the stock search *)

MaxTimers == 2        \* timers the search input sets
MaxSearchTicks == 4   \* the clock of the search runs over this many half delays

\* The texts of the search input at an input event.
SearchTexts == {Str("a"), Str("aa"), Str("ms")}

\* The symbol and the name the upstream matches to a query.
UpstreamMatch ==
    ("aa" :> [symbol |-> "AAPL", name |-> "Apple Inc"])
        @@ ("ms" :> [symbol |-> "MSFT", name |-> "Microsoft Corporation"])

\* The responses to a search request for a query: a failure, no match and the
\* match of the query.
SearchResponses(query) ==
    {NetworkFailure,
     [json |-> Obj(("bestMatches" :> Arr(<<>>)))],
     [json |-> Obj(("bestMatches" :> Arr(<<
        Obj(("1. symbol" :> Str(UpstreamMatch[query].symbol))
            @@ ("2. name" :> Str(UpstreamMatch[query].name))
            @@ ("3. type" :> Str("Equity"))
            @@ ("4. region" :> Str("United States"))
            @@ ("8. currency" :> Str("USD")))>>)))]}

(* Operations of the stock search *)

\* Half a debounce delay passes.
SearchTick ==
    /\ Idle
    /\ now < MaxSearchTicks * (DebounceDelay \div 2)
    /\ now' = now + (DebounceDelay \div 2)
    /\ UNCHANGED <<goalsVars, formVars, chartVars, adapterVars, mainVars, portfolioVars,
                   searchVars>>
    /\ UNCHANGED <<localStorage, quotaExceeded, prev, call, ret, lastSet, coll, added>>

\* An input event of the search input.
SearchInput ==
    \E value \in SearchTexts :
        \E r \in {searchInputListener(
                    value, searchTimeout, timers, searchResults,
                    IF Is(searchTimeout, "num") THEN searchTimeout.num + 1 ELSE 1)} :
            /\ Idle
            /\ Is(r.searchTimeout, "num") => r.searchTimeout.num <= MaxTimers
            /\ call' = <<"input", value>>
            /\ searchInput' = [value |-> value, at |-> now]
            /\ searchTimeout' = r.searchTimeout
            /\ timers' = r.timers
            /\ searchResults' = r.searchResults
            /\ prev' = localStorage
            /\ UNCHANGED <<searches, issued>>
            /\ UNCHANGED <<goalsVars, formVars, chartVars, adapterVars, mainVars,
                           portfolioVars>>
            /\ UNCHANGED <<now, localStorage, quotaExceeded, ret, lastSet, coll, added>>

\* A timer whose delay has passed fires: its callback calls performStockSearch.
TimerFires ==
    \E k \in 1..Len(timers) :
        \E r \in {performStockSearch(localStorage, searchResults, timers[k].query.str)} :
            /\ Idle
            /\ now >= timers[k].due
            /\ call' = <<"timer", timers[k].query, timers[k].due - DebounceDelay>>
            /\ timers' = SubSeq(timers, 1, k - 1) \o SubSeq(timers, k + 1, Len(timers))
            /\ issued' = Append(issued, timers[k].query.str)
            /\ searchResults' = r.searchResults
            /\ searches' = IF r.awaiting THEN Append(searches, timers[k].query.str)
                           ELSE searches
            /\ prev' = localStorage
            /\ UNCHANGED <<searchInput, searchTimeout>>
            /\ UNCHANGED <<goalsVars, formVars, chartVars, adapterVars, mainVars,
                           portfolioVars>>
            /\ UNCHANGED <<now, localStorage, quotaExceeded, ret, lastSet, coll, added>>

\* The response to one of the awaited search requests arrives, whichever was
\* issued first.
SearchResponds ==
    \E k \in 1..Len(searches) :
        \E response \in SearchResponses(searches[k]) :
            \E r \in {searchStockSymbolResponse(localStorage, searches[k], response)} :
                /\ Idle
                /\ call' = <<"searchResponse", searches[k], r.ret>>
                /\ localStorage' = r.ls
                /\ searchResults' = showSearchResults(searchResults, searches[k], r.ret)
                /\ searches' = SubSeq(searches, 1, k - 1)
                                    \o SubSeq(searches, k + 1, Len(searches))
                /\ prev' = localStorage
                /\ UNCHANGED <<searchInput, searchTimeout, timers, issued>>
                /\ UNCHANGED <<goalsVars, formVars, chartVars, adapterVars, mainVars,
                               portfolioVars>>
                /\ UNCHANGED <<now, quotaExceeded, ret, lastSet, coll, added>>

SearchNext ==
    \/ Return
    \/ SearchTick
    \/ SearchInput
    \/ TimerFires
    \/ SearchResponds

SpecSearch == InitPortfolio /\ [][SearchNext]_vars

----------------------------------------------------------------------------
(* Properties of the cache *)

\* An entry whose stored ttl has run out in the sense of the specification:
\* the ttl is not null and now - timestamp >= ttl.
TtlElapsed(entry) ==
    /\ Is(GetProp(entry, "ttl"), "num")
    /\ Age(entry) >= GetProp(entry, "ttl").num

\* C1: for an entry with a non-null ttl, get returns a non-null value if and only
\* if now - timestamp < ttl; once expired, get returns null and removes the entry,
\* so that getStats no longer counts it.
C1_GetNonNullIffWithinTtl ==
    (call[1] = "cache.get" /\ HasEntry(prev, call[2], call[3])
        /\ Is(GetProp(EntryAt(prev, call[2], call[3]), "ttl"), "num"))
    => LET entry == EntryAt(prev, call[2], call[3])
       IN  /\ (ret # Null) <=> ~TtlElapsed(entry)
           /\ TtlElapsed(entry) =>
                /\ ret = Null
                /\ ~HasEntry(localStorage, call[2], call[3])
                /\ cacheGetStats(localStorage).ret.num = cacheGetStats(prev).ret.num - 1

\* C2: clearExpired removes exactly the entries whose ttl has elapsed
\* (now - timestamp >= ttl), leaves entries with ttl = null and unexpired entries
\* untouched, and returns the number of entries it removed.
C2_ClearExpiredRemovesExactlyElapsed ==
    call[1] = "cache.clearExpired"
    => /\ \A ck \in AllCoords(prev) :
            IF TtlElapsed(EntryAt(prev, ck[1], ck[2]))
            THEN ~HasEntry(localStorage, ck[1], ck[2])
            ELSE EntryAt(localStorage, ck[1], ck[2]) = EntryAt(prev, ck[1], ck[2])
       /\ ret = Num(Cardinality({ck \in AllCoords(prev) :
                                    TtlElapsed(EntryAt(prev, ck[1], ck[2]))}))

\* C3: a successful set stores the value with the current timestamp and the given
\* ttl at its coordinate, replacing what was there, and changes no other
\* coordinate; a get before expiry returns the value last set at its coordinate.
C3_SetReplacesOnlyItsCoordinate ==
    /\ (call[1] = "cache.set" /\ ret = Bool(TRUE))
       => /\ EntryAt(localStorage, call[2], call[3])
                = Obj([data |-> call[4], timestamp |-> Num(now), ttl |-> call[5]])
          /\ \A ck \in (AllCoords(prev) \cup AllCoords(localStorage)) \ {<<call[2], call[3]>>} :
                EntryAt(localStorage, ck[1], ck[2]) = EntryAt(prev, ck[1], ck[2])
    /\ (call[1] = "cache.get" /\ lastSet[<<call[2], call[3]>>] # Null
            /\ ~TtlElapsed(lastSet[<<call[2], call[3]>>]))
       => ret = GetProp(lastSet[<<call[2], call[3]>>], "data")

\* C3 witness: a set has replaced an entry holding another value, timestamp and
\* ttl while another coordinate holds an entry; and a later get returned the value.
C3_Witness ==
    /\ call[1] = "cache.set" /\ ret = Bool(TRUE)
    /\ HasEntry(prev, call[2], call[3])
    /\ GetProp(EntryAt(prev, call[2], call[3]), "data") # call[4]
    /\ GetProp(EntryAt(prev, call[2], call[3]), "timestamp") # Num(now)
    /\ GetProp(EntryAt(prev, call[2], call[3]), "ttl") # call[5]
    /\ \E ck \in AllCoords(prev) : ck # <<call[2], call[3]>>

\* C4: isValid is true exactly when an entry exists at the coordinate and
\* now - timestamp < maxAge, whatever the entry's own ttl, and it never changes
\* the cache.
C4_IsValidUsesMaxAgeOnly ==
    call[1] = "cache.isValid"
    => /\ ret = Bool(/\ HasEntry(prev, call[2], call[3])
                     /\ Age(EntryAt(prev, call[2], call[3])) < call[4])
       /\ localStorage = prev

\* C4 witness: isValid answered true for an entry expired by its own ttl, and the
\* entry is still stored.
C4_Witness ==
    /\ call[1] = "cache.isValid"
    /\ ret = Bool(TRUE)
    /\ HasEntry(localStorage, call[2], call[3])
    /\ EntryExpired(EntryAt(localStorage, call[2], call[3]))

----------------------------------------------------------------------------
(* Properties of the collections *)

\* The records of the collection c persisted in the storage ls.
Records(ls, c) == collLoad(ls, c).arr

\* No storage key but that of the collection c differs between prev and now.
OnlyWrites(c) == \A k \in StorageKeys \ {STORAGE_KEYS[c]} : localStorage[k] = prev[k]

\* C5: when the storage write fails, cacheStorage.set and the save of every
\* collection return false instead of throwing, and what was persisted stays.
C5_WriteFailureReturnsFalse ==
    (quotaExceeded /\ call[1] \in {"cache.set", "save"})
    => (ret = Bool(FALSE) /\ localStorage = prev)

C7_ReadersDefaultToEmpty ==
    LET key == IF call[1] = "load" THEN STORAGE_KEYS[call[2]] ELSE call[2]
    IN  (call[1] \in {"load", "moduleRead"}
            /\ ~(Is(prev[key], "json") /\ Is(prev[key].json, "arr")))
        => ret = Arr(<<>>)

\* C8: update(id, partial) returns false and leaves the storage unchanged when
\* no record has that id; otherwise it returns true, merges partial into one
\* record with that id, and leaves every other record and the order unchanged.
C8_UpdateMergesOneRecord ==
    call[1] = "update"
    => LET before == Records(prev, call[2])
           after == Records(localStorage, call[2])
           partial == call[4].obj
           hits == {i \in 1..Len(before) : GetProp(before[i], "id") = call[3]}
       IN  IF hits = {}
           THEN ret = Bool(FALSE) /\ localStorage = prev
           ELSE /\ ret = Bool(TRUE)
                /\ Len(after) = Len(before)
                /\ OnlyWrites(call[2])
                /\ \E i \in hits :
                    /\ DOMAIN after[i].obj
                            = DOMAIN before[i].obj \cup DOMAIN partial \cup {"updatedAt"}
                    /\ \A f \in DOMAIN partial : after[i].obj[f] = partial[f]
                    /\ \A f \in DOMAIN before[i].obj \ (DOMAIN partial \cup {"updatedAt"}) :
                            after[i].obj[f] = before[i].obj[f]
                    /\ \A j \in 1..Len(before) : j # i => after[j] = before[j]

\* C8 witness: an update changed one of several records.
C8_Witness ==
    /\ call[1] = "update"
    /\ ret = Bool(TRUE)
    /\ Len(Records(prev, call[2])) >= 2
    /\ Records(localStorage, call[2]) # Records(prev, call[2])

\* C9: delete(id) removes exactly the records whose id is id, keeps the others
\* in their order, and writes no other storage key: the cache stays as it was.
C9_DeleteRemovesOnlyId ==
    call[1] = "delete"
    => /\ Records(localStorage, call[2])
            = SelectSeq(Records(prev, call[2]), LAMBDA x : GetProp(x, "id") # call[3])
       /\ OnlyWrites(call[2])

\* C9 witness: a holding of AAPL was deleted, another record stays, and the
\* cache holds a price point of AAPL.
C9_Witness ==
    /\ call[1] = "delete"
    /\ call[2] = "PORTFOLIO"
    /\ \E i \in 1..Len(Records(prev, "PORTFOLIO")) :
            /\ GetProp(Records(prev, "PORTFOLIO")[i], "id") = call[3]
            /\ GetProp(Records(prev, "PORTFOLIO")[i], "symbol") = Str("AAPL")
    /\ Len(Records(localStorage, "PORTFOLIO")) >= 1
    /\ HasEntry(localStorage, "stockPrices", "AAPL")

\* C10: add appends its record to the persisted collection and writes it back
\* whole, so that after adds made one after another a load returns every added
\* record, in call order, none lost and none twice.
C10_AddsAreKeptInOrder ==
    /\ (call[1] = "add" /\ ~Is(ret, "throw"))
       => /\ Records(localStorage, call[2]) = Append(Records(prev, call[2]), ret)
          /\ OnlyWrites(call[2])
    /\ LET all == Records(localStorage, coll)
       IN  /\ Len(all) >= Len(added)
           /\ SubSeq(all, Len(all) - Len(added) + 1, Len(all)) = added

\* C10 witness: two adds made one after the other, both records persisted.
C10_Witness ==
    /\ call[1] = "add"
    /\ Len(added) >= 2
    /\ Len(Records(localStorage, coll)) >= 2

\* C12: after any sequence of portfolio add, update and delete operations every
\* persisted holding has an uppercase symbol, so that getBySymbol(s) finds a
\* holding of symbol s whatever the letter case of s or of the symbol supplied.
C12_PersistedSymbolsUppercase ==
    coll = "PORTFOLIO"
    => /\ \A i \in 1..Len(Records(localStorage, "PORTFOLIO")) :
            LET symbol == GetProp(Records(localStorage, "PORTFOLIO")[i], "symbol")
            IN  symbol = toUpperCase(symbol)
       /\ call[1] = "getBySymbol"
            => ((ret # Null) <=>
                    \E i \in 1..Len(Records(prev, "PORTFOLIO")) :
                        toUpperCase(GetProp(Records(prev, "PORTFOLIO")[i], "symbol"))
                            = toUpperCase(call[2]))

----------------------------------------------------------------------------
(* Properties of the goals page *)

\* C11: after any sequence of adds within a session, the goals of the list have
\* pairwise distinct ids, also when two adds happen within the same millisecond.
C11_IdsPairwiseDistinct ==
    \A i, j \in 1..Len(goals) :
        i # j => GetProp(goals[i], "id") # GetProp(goals[j], "id")

\* The index of the goal an operation on goalId reaches: the first of prevGoals
\* with that id, 0 when there is none.
Reached(goalId) == findIndexById(prevGoals, goalId)

\* The goals a reload of the page would read from the storage.
PersistedGoals == moduleRead(localStorage, "savingsGoals").ret

\* The goal at index i differs from what it was in its currentProgress at most,
\* and every other goal is as it was.
OnlyProgressChanged(i) ==
    /\ Len(goals) = Len(prevGoals)
    /\ DOMAIN goals[i].obj = DOMAIN prevGoals[i].obj
    /\ \A f \in DOMAIN goals[i].obj \ {"currentProgress"} :
            goals[i].obj[f] = prevGoals[i].obj[f]
    /\ \A j \in 1..Len(goals) : j # i => goals[j] = prevGoals[j]

\* C13: quickAddProgress(id, amount) on an existing goal adds amount to the goal's
\* currentProgress and stores targetAmount instead when the sum exceeds it, the
\* card then showing 100% Complete; the change is persisted and no other goal is
\* modified.
C13_QuickAddClampsToTarget ==
    (call[1] = "quickAddProgress" /\ Reached(call[2]) # 0)
    => LET i == Reached(call[2])
           sum == GetProp(prevGoals[i], "currentProgress").num + parseFloat(call[3]).num
           target == GetProp(prevGoals[i], "targetAmount").num
       IN  /\ GetProp(goals[i], "currentProgress")
                = Num(IF sum > target THEN target ELSE sum)
           /\ OnlyProgressChanged(i)
           /\ PersistedGoals = Arr(goals)
           /\ sum >= target
                => \E k \in 1..Len(goalsContainer) :
                        /\ goalsContainer[k].goalId = call[2]
                        /\ goalsContainer[k].name = GetProp(goals[i], "name")
                        /\ goalsContainer[k].percentage = Num(100)

\* C13 witness: 900 was added to one of two goals, which stood at 250 of 1000 and
\* now stands at 1000.
C13_Witness ==
    /\ call[1] = "quickAddProgress"
    /\ call[3] = Num(900)
    /\ Len(prevGoals) >= 2
    /\ Reached(call[2]) # 0
    /\ GetProp(prevGoals[Reached(call[2])], "currentProgress") = Num(250)
    /\ GetProp(goals[Reached(call[2])], "currentProgress") = Num(1000)

\* Every card shows a percentage of at most 100, and addGoal, updateGoal and
\* updateGoalProgress store the progress they are given as it is.
DisplayClampedStoredAsGiven ==
    /\ \A k \in 1..Len(goalsContainer) : goalsContainer[k].percentage.num <= 100
    /\ (call[1] = "addGoal" /\ ~Is(ret, "throw"))
        => GetProp(goals[Len(goals)], "currentProgress") = parseFloat(call[4])
    /\ (call[1] = "updateGoal" /\ Reached(call[2]) # 0)
        => GetProp(goals[Reached(call[2])], "currentProgress") = parseFloat(call[5])
    /\ (call[1] = "updateGoalProgress" /\ Reached(call[2]) # 0)
        => GetProp(goals[Reached(call[2])], "currentProgress") = parseFloat(call[3])

\* C14, as stated: the displayed percentage is at most 100, and no goal operation
\* (addGoal, updateGoal, updateGoalProgress, quickAddProgress) clamps the stored
\* progress.
C14_StoredProgressNeverClamped ==
    /\ DisplayClampedStoredAsGiven
    /\ (call[1] = "quickAddProgress" /\ Reached(call[2]) # 0)
        => GetProp(goals[Reached(call[2])], "currentProgress")
                = Plus(GetProp(prevGoals[Reached(call[2])], "currentProgress"),
                       parseFloat(call[3]))

\* C14, amended: the displayed percentage is at most 100; addGoal, updateGoal and
\* updateGoalProgress store the progress unclamped, so that it can exceed
\* targetAmount; quickAddProgress alone never stores more than targetAmount.
C14_OnlyQuickAddClampsStored ==
    /\ DisplayClampedStoredAsGiven
    /\ (call[1] = "quickAddProgress" /\ Reached(call[2]) # 0)
        => ~GreaterThan(GetProp(goals[Reached(call[2])], "currentProgress"),
                        GetProp(goals[Reached(call[2])], "targetAmount"))

\* C14 witness: updateGoalProgress stored a progress above the target, and the
\* goal's card shows 100.
C14_Witness ==
    /\ call[1] = "updateGoalProgress"
    /\ Reached(call[2]) # 0
    /\ GreaterThan(GetProp(goals[Reached(call[2])], "currentProgress"),
                   GetProp(goals[Reached(call[2])], "targetAmount"))
    /\ \E k \in 1..Len(goalsContainer) :
            goalsContainer[k].goalId = call[2] /\ goalsContainer[k].percentage = Num(100)

\* C27: after every operation of the goals module that changes the list of goals
\* or the progress of a goal, the persisted 'totalSavings' is the sum of the
\* currentProgress of the goals in the list.
C27_TotalSavingsIsSumOfProgress ==
    call[1] \in {"addGoal", "updateGoal", "deleteGoal", "updateGoalProgress",
                 "quickAddProgress"}
    => localStorage["totalSavings"] = totalToFixed2(calculateTotalSavings(goals))

\* C26: the operations of the main script on spending and income items leave
\* the persisted collection of savings goals as it was, also when the goals
\* module added, changed or deleted goals since the main script was loaded.
C26_ItemOperationsKeepGoals ==
    call[1] \in {"addSpendingItem", "deleteSpendingItem", "addIncomeItem", "deleteIncomeItem"}
    => moduleRead(localStorage, "savingsGoals").ret = moduleRead(prev, "savingsGoals").ret

\* The fields are a valid submission of the goal form: name, target amount and
\* current progress are filled in, the target is positive and the progress is
\* not negative.
ValidGoalFields(fields) ==
    /\ fields[1] \notin {Str(""), Str("  ")}
    /\ Is(parseFloat(fields[2]), "num") /\ parseFloat(fields[2]).num > 0
    /\ Is(parseFloat(fields[3]), "num") /\ parseFloat(fields[3]).num >= 0

\* C28: a valid submission of the goal form made in edit mode leaves the number
\* of goals as it was and the form in add mode (no edit id, submit button
\* labelled 'Add Goal'), also when the goal being edited was deleted before.
C28_EditSubmitReturnsToAddMode ==
    (call[1] = "handleGoalFormSubmit" /\ ValidGoalFields(call[2]) /\ Truthy(call[3].editId))
    => /\ Len(goals) = Len(prevGoals)
       /\ goalForm.editId = Undefined
       /\ goalForm.submitText = "Add Goal"

----------------------------------------------------------------------------
(* Properties of the chart *)

\* A rendering has just drawn a canvas.
Rendered == call[1] \in {"createStockChart", "displayStockChart"} /\ chart.canvas

\* The closing price of the i-th day of the series data, whatever its order.
CloseOfDay(data, i) ==
    data[CHOOSE k \in 1..Len(data) : data[k].date = DateOf(i)].close

\* Every coordinate of what the chart draws and of what its hover test compares
\* is a finite number.
AllCoordinatesFinite ==
    /\ \A i \in 1..Len(chart.points) :
            isFinite(chart.points[i].x) /\ isFinite(chart.points[i].y)
    /\ \A i \in DOMAIN chart.labels : isFinite(chart.labels[i].x)
    /\ \A i \in 1..Len(chart.area) :
            isFinite(chart.area[i].x) /\ isFinite(chart.area[i].y)

\* The series data is in the order of the time series adapter, newest day first.
NewestFirst(data) == \A k \in 1..Len(data) : data[k].date = DateOf(Len(data) - k + 1)

\* C15: rendering a series of a single point gives finite pixel coordinates only,
\* for the point, the line and area drawn, the x-axis label and the hover test.
C15_SinglePointFinite ==
    (Rendered /\ Len(call[2]) = 1) => AllCoordinatesFinite

C17_ConstantSeriesGuarded ==
    (Rendered /\ \A i, j \in 1..Len(call[2]) : call[2][i].close = call[2][j].close)
    => /\ chart.priceRange = Int2Rat(1)
       /\ \A i \in 1..Len(chart.points) :
            isFinite(chart.points[i].y) /\ chart.points[i].y = chart.points[1].y

\* The pointer of the last mousemove in canvas pixels, and the points of the
\* chart within the renderer's radius of it.
PointerX == Divide(Int2Rat(call[2].x * canvasWidth), Int2Rat(call[3].width))
PointerY == Divide(Int2Rat(call[2].y * canvasHeight), Int2Rat(call[3].height))
SquaredFromPointer(i) == distanceSquared(PointerX, PointerY, chart.points[i])
WithinRadius ==
    {i \in 1..Len(chart.points) :
        LessThan(SquaredFromPointer(i),
                 Int2Rat(Renderers[chart.renderer].radius * Renderers[chart.renderer].radius))}

\* C20: after a pointer-move the tooltip is shown if and only if a data point lies
\* within the renderer's radius of the pointer, and then it shows the date and
\* the price of a nearest such point; after a pointer-leave the tooltip is hidden.
C20_TooltipFollowsNearestPoint ==
    /\ call[1] = "mousemove"
        => /\ tooltip.display = "block" <=> WithinRadius # {}
           /\ WithinRadius # {}
                => \E i \in WithinRadius :
                    /\ \A j \in WithinRadius :
                            ~LessThan(SquaredFromPointer(j), SquaredFromPointer(i))
                    /\ tooltip.date = chart.dates[i]
                    /\ tooltip.price = ToString(chart.prices[i].n) \o ".00"
    /\ call[1] = "mouseleave" => tooltip.display = "none"

\* C20 witness: two points lie within the radius of the pointer and the tooltip
\* shows the later one, which is the nearer.
C20_Witness ==
    /\ call[1] = "mousemove"
    /\ Cardinality(WithinRadius) >= 2
    /\ \E i \in WithinRadius :
        /\ tooltip.date = chart.dates[i]
        /\ \E j \in WithinRadius : j < i /\ LessThan(SquaredFromPointer(i), SquaredFromPointer(j))

\* C29: rendering a chart leaves the caller's series as it was, newest day first,
\* so that a second rendering of the same array plots the days in the same
\* order; with createStockChart and with displayStockChart.
C29_RenderLeavesSeriesUnchanged ==
    call[1] \in {"createStockChart", "displayStockChart"} => series = call[2]

----------------------------------------------------------------------------
(* Properties of the adapters *)

\* The entry stored under key in the storage ls, Null when there is none.
StoredEntry(ls, key) == IF Is(ls[key], "json") THEN ls[key].json ELSE Null

\* The storage ls holds under key an entry less than ttl old at time t.
FreshAt(ls, key, t, ttl) ==
    /\ Is(GetProp(StoredEntry(ls, key), "timestamp"), "num")
    /\ t - GetProp(StoredEntry(ls, key), "timestamp").num < ttl

\* C18: a call for a stock quote returns the cached value and issues no HTTP
\* request when the cache entry of the symbol is less than an hour old; otherwise
\* it issues exactly one request and, on success, writes the normalized result
\* to the cache with the current timestamp and returns it, so that a second call
\* within the hour issues no request.
C18_QuoteCachedForAnHour ==
    call[1] = "getStockQuote"
    => LET key == "stock_quote_" \o call[2]
       IN  IF FreshAt(prev, key, started.at, HOUR)
           THEN /\ ret = GetProp(StoredEntry(prev, key), "value")
                /\ fetches = 0
                /\ localStorage = prev
           ELSE /\ fetches = 1
                /\ ~Is(ret, "throw")
                    => /\ call[3] \in SuccessResponses.getStockQuote
                       /\ GetProp(ret, "symbol")
                            = GetProp(GetProp(call[3].json, "Global Quote"), "01. symbol")
                       /\ StoredEntry(localStorage, key)
                            = Obj([timestamp |-> Num(now), value |-> ToJSON(ret)])
                       /\ FreshAt(localStorage, key, now, HOUR)

\* C18 witness: a call made later within the hour of a fetched quote returned
\* the cached quote with no request.
C18_Witness ==
    /\ call[1] = "getStockQuote"
    /\ call[3] = Null
    /\ fetches = 0
    /\ GetProp(ret, "symbol") = Str("AAPL")
    /\ now > GetProp(StoredEntry(prev, "stock_quote_AAPL"), "timestamp").num

\* C19: when the request of an adapter call fails (network failure, unparsable
\* response, error reported by the upstream), the call throws to its caller
\* instead of returning a value, issues no second request and writes nothing to
\* the cache; for the stock, exchange-rate and news adapters, fetchNews included.
C19_FailuresAreRethrown ==
    (call[1] \in DOMAIN FailureResponses /\ call[3] \in FailureResponses[call[1]])
    => /\ Is(ret, "throw")
       /\ fetches = 1
       /\ localStorage = prev

\* C30: a call for the daily time series of a symbol over a number of days
\* returns at most that many price points, from the network and from the cache,
\* whatever calls for the same symbol with other numbers of days preceded it.
C30_AtMostDaysPoints ==
    (call[1] = "getStockTimeSeries" /\ Is(ret, "arr")) => Len(ret.arr) <= call[2].days

----------------------------------------------------------------------------
(* Properties of the portfolio page *)

\* The call of displayPortfolioHoldings that has just shown its rows, with the
\* holdings it loaded, the outcome of each quote request and the order in which
\* the requests completed.
Shown ==
    IF call[1] = "displayPortfolioHoldings" THEN call[2]
    ELSE IF call[1] = "holdingFormSubmit" THEN call[3]
    ELSE Null

\* The quote request of holding i of a call got a quote with a price.
Quoted(refresh, i) ==
    Is(refresh.results[i], "obj") /\ Is(GetProp(refresh.results[i], "price"), "num")

\* The symbol and the quantity of holding i of a call, and the price the
\* upstream quotes for it.
SymbolOf(refresh, i) == GetProp(refresh.holdings[i], "symbol").str
QuantityOf(refresh, i) == GetProp(refresh.holdings[i], "quantity").num
CostOf(refresh, i) == GetProp(refresh.holdings[i], "avgCost").num
PriceOf(refresh, i) == parseFloat(UpstreamPrice[SymbolOf(refresh, i)]).num

\* C21: whatever the order in which the concurrent quote requests of a call of
\* displayPortfolioHoldings complete, the table has one row per holding the call
\* loaded, in the order of the holdings, and every row that shows a price shows
\* its own holding's symbol and quantity with the price and the value of that
\* holding's symbol.
C21_RowsPairHoldingWithOwnQuote ==
    Shown # Null =>
        /\ tbody.state = "rows"
        /\ Len(tbody.rows) = Len(Shown.holdings)
        /\ \A i \in 1..Len(Shown.holdings) :
            /\ tbody.rows[i].symbol = Str(SymbolOf(Shown, i))
            /\ tbody.rows[i].quantity = Num(QuantityOf(Shown, i))
            /\ Quoted(Shown, i) =>
                /\ tbody.rows[i].price = "$" \o ToString(PriceOf(Shown, i)) \o ".00"
                /\ tbody.rows[i].value =
                     "$" \o ToString(QuantityOf(Shown, i) * PriceOf(Shown, i)) \o ".00"

\* C21 witness: rows are shown for two holdings of different symbols whose
\* quotes both arrived, the second holding's before the first's.
C21_Witness ==
    /\ Shown # Null
    /\ Len(Shown.holdings) = 2
    /\ SymbolOf(Shown, 1) # SymbolOf(Shown, 2)
    /\ Quoted(Shown, 1) /\ Quoted(Shown, 2)
    /\ Shown.order = <<2, 1>>
    /\ tbody.rows[1].price # tbody.rows[2].price

RECURSIVE QuotedTotal(_, _, _)
\* The sum over the first n holdings of a call that got a quote, of the
\* holding's value (what = "value") or cost (what = "cost").
QuotedTotal(refresh, n, what) ==
    IF n = 0 THEN 0
    ELSE QuotedTotal(refresh, n - 1, what)
            + (IF ~Quoted(refresh, n) THEN 0
               ELSE IF what = "value" THEN QuantityOf(refresh, n) * PriceOf(refresh, n)
               ELSE QuantityOf(refresh, n) * CostOf(refresh, n))

\* C25: when the quote request of a holding fails (or its quote has no price),
\* the row of that holding shows 'N/A' for price, value and gain, every holding
\* that got a priced quote shows its own price, the total value and the total
\* cost count only the holdings that got a priced quote, and the table shows
\* rows, not its error state.
C25_FailedQuoteShowsNAInItsRowOnly ==
    Shown # Null =>
        /\ tbody.state = "rows"
        /\ \A i \in 1..Len(Shown.holdings) :
            IF Quoted(Shown, i)
            THEN tbody.rows[i].price = "$" \o ToString(PriceOf(Shown, i)) \o ".00"
            ELSE /\ tbody.rows[i].price = "N/A"
                 /\ tbody.rows[i].value = "N/A"
                 /\ tbody.rows[i].gain = "N/A"
        /\ summary.totalValue =
             "$" \o ToString(QuotedTotal(Shown, Len(Shown.holdings), "value")) \o ".00"
        /\ summary.totalCost =
             "$" \o ToString(QuotedTotal(Shown, Len(Shown.holdings), "cost")) \o ".00"

\* C25 witness: rows are shown for two holdings, the quote request of one of
\* which failed while the other got its quote.
C25_Witness ==
    /\ Shown # Null
    /\ Len(Shown.holdings) = 2
    /\ \E i, j \in 1..2 :
        /\ Is(Shown.results[i], "throw")
        /\ Quoted(Shown, j)
        /\ tbody.rows[i].price = "N/A"
        /\ tbody.rows[j].price # "N/A"
    /\ summary.totalCost # "$0.00"

\* The fields of the add-holding form that the form has to block: an empty
\* symbol, an empty or negative quantity, an empty or negative average cost.
BlockedHoldingFields(fields) ==
    \/ trim(fields[1]) = Str("")
    \/ fields[2] = Str("")
    \/ fields[3] = Str("")
    \/ Less(parseFloat(fields[2]), Num(0))
    \/ Less(parseFloat(fields[3]), Num(0))

\* C24: a submission of the goal form with an empty name, target or progress, a
\* target of zero or less or a negative progress, and a submission of the
\* add-holding form with an empty symbol or an empty or negative quantity or
\* average cost, change nothing: the goals, the form, the storage and the
\* holdings table stay as they were.
C24_InvalidSubmissionChangesNothing ==
    /\ (call[1] = "handleGoalFormSubmit" /\ ~ValidGoalFields(call[2])) =>
            /\ goals = prevGoals
            /\ localStorage = prev
            /\ goalForm = call[3]
    /\ (call[1] = "holdingFormSubmit" /\ BlockedHoldingFields(call[2])) =>
            /\ localStorage = prev
            /\ call[3] = Null

----------------------------------------------------------------------------
(* Properties of the stock search *)

C23_DebounceIssuesOnlyLatestQuery ==
    /\ Len(timers) <= 1
    /\ call[1] = "timer" =>
        /\ length(call[2]) >= 2
        /\ call[2] = trim(searchInput.value)
        /\ call[3] = searchInput.at
        /\ now - searchInput.at >= DebounceDelay
        /\ issued[Len(issued)] = call[2].str
        /\ timers = <<>>

\* C23 witness: the second timer the input set has fired and issued the first
\* search: the first timer was discarded by the input event that set the second.
C23_Witness ==
    /\ call[1] = "timer"
    /\ searchTimeout = Num(2)
    /\ Len(issued) = 1

====
